---- MODULE Spec2Model ----
(***************************************************************************)
(* A model of the LEVM interpreter core of ethrex: the call-frame stack,   *)
(* the CALL/CREATE entry protocol, the handle_return protocol, the          *)
(* StateBackup snapshot/restore discipline, storage slots and the refund    *)
(* counter, and transient storage.                                          *)
(*                                                                         *)
(* Abstractions.  A frame's bytecode is opaque: a frame whose bytecode is   *)
(* not empty may execute any of the modelled opcodes, with operands drawn   *)
(* from small sets (the operands are what the program pushed, so the       *)
(* modelled stack holds only the words the modelled opcodes push).  A       *)
(* frame whose bytecode is empty fetches STOP.  The bytes RETURN/REVERT     *)
(* load and the calldata of a call are inputs; memory is written by the    *)
(* copying opcodes and by the return of a call.                            *)
(***************************************************************************)
EXTENDS Integers, Sequences, FiniteSets, TLC

\* ------------------------------------------------------------------ bounds
\* Number of non-halting opcodes executed by one transaction (the programs
\* run are the ones with at most this many instructions executed).
MaxSteps == 2

\* ------------------------------------------------------- the input universe
Addr == [precompile |-> 1, origin |-> 20, A |-> 21, B |-> 22, new |-> 30]
Addresses == {Addr.precompile, Addr.origin, Addr.A, Addr.B, Addr.new}
Keys == {0}
Values == {0, 1}
\* byte strings used as RETURN/REVERT payloads and as code
Payloads == {<<1>>}
SomeCode == <<96>>
Forks == {"Istanbul", "Cancun"}
\* the values TSTORE writes
TransientValues == {1}
\* the operands of CALL and CALLCODE: <<gas, callee, value>>
CallArgs ==
    {<<100000, Addr.A, 1>>, <<100000, Addr.B, 0>>, <<0, Addr.B, 1>>,
     <<100000, Addr.precompile, 0>>}
CallcodeArgs == {<<100000, Addr.B, 1>>}
\* the operands of DELEGATECALL and STATICCALL: <<gas, callee>>
DelegatecallArgs == {<<100000, Addr.B>>}
StaticcallArgs == {<<100000, Addr.B>>}
\* the operands of CREATE and CREATE2: <<value, initialization code>>
CreateArgs == {<<1, SomeCode>>, <<0, <<>> >>}
Create2Args == {<<1, SomeCode>>}
SelfdestructTargets == {Addr.B}

NoAccount == [absent |-> "account"]
NoSlot == [absent |-> "slot"]
NoError == "NoError"
\* the guest program is not what runs
NoGuest == [pc |-> "none"]

\* -------------------------------------------------------------------- forks
ForkRank ==
    [f \in {"Frontier", "Homestead", "Tangerine", "SpuriousDragon", "Byzantium",
            "Constantinople", "Istanbul", "Berlin", "London", "Shanghai",
            "Cancun", "Prague", "Osaka"} |->
        CASE f = "Frontier" -> 0 [] f = "Homestead" -> 1 [] f = "Tangerine" -> 2
          [] f = "SpuriousDragon" -> 3 [] f = "Byzantium" -> 4
          [] f = "Constantinople" -> 5 [] f = "Istanbul" -> 6 [] f = "Berlin" -> 7
          [] f = "London" -> 8 [] f = "Shanghai" -> 9 [] f = "Cancun" -> 10
          [] f = "Prague" -> 11 [] f = "Osaka" -> 12]

\* fork >= Fork::g
ForkGE(f, g) == ForkRank[f] >= ForkRank[g]

\* ------------------------------------------------------------ program state
VARIABLES
    fork,               \* env.config.fork
    tx_kind,            \* VM.tx_kind: "Call" or "Create"
    access_list,        \* VM.access_list: a sequence of <<address, keys>>
    store,              \* db.store: the external world state (read only)
    cache,              \* db.cache
    cache_backup,       \* VM.cache_backup
    call_frames,        \* VM.call_frames
    accrued_substate,   \* VM.accrued_substate
    refunded_gas,       \* env.refunded_gas
    transient_storage,  \* env.transient_storage
    return_data,        \* VM.return_data
    backups,            \* VM.backups
    phase,              \* position in VM::execute: "new", "running", "returned", "error"
    report,             \* the ExecutionReport run_execution returned
    steps,              \* non-halting opcodes executed so far
    guest,              \* the zkVM guest program: its position, input, tries' hash and output
    hist                \* history: what the last step did, and the state at each open frame's entry

vars == <<guest, fork, tx_kind, access_list, store, cache, cache_backup, call_frames, accrued_substate, refunded_gas,
          transient_storage, return_data, backups, phase, report, steps, hist>>

\* ------------------------------------------------------------------ accounts
EmptyStorage == [k \in Keys |-> NoSlot]

\* Account::new
Account(balance, code, nonce, storage) ==
    [balance |-> balance, nonce |-> nonce, code |-> code, storage |-> storage]

\* Account::is_empty / AccountInfo::is_empty
is_empty(acc) == acc.balance = 0 /\ acc.nonce = 0 /\ acc.code = <<>>

\* Account::has_code_or_nonce
has_code_or_nonce(acc) == ~(acc.nonce = 0 /\ acc.code = <<>>)

\* Database::get_account_info: an address the store does not hold reads as the
\* default (empty) account
store_get_account_info(a) ==
    IF store[a].exists
    THEN Account(store[a].balance, store[a].code, store[a].nonce, EmptyStorage)
    ELSE Account(0, <<>>, 0, EmptyStorage)

\* Database::get_storage_slot (0 if absent)
store_get_storage_slot(a, k) == IF store[a].exists THEN store[a].storage[k] ELSE 0

\* utils::get_account: the cached account, else the store's
get_account(c, a) == IF c[a] # NoAccount THEN c[a] ELSE store_get_account_info(a)

\* the caching done by utils::get_account and utils::get_account_mut_vm
load_account(c, a) == [c EXCEPT ![a] = get_account(c, a)]

\* utils::account_exists
account_exists(c, a) == c[a] # NoAccount \/ store[a].exists

\* utils::increase_account_balance
increase_account_balance(c, a, v) ==
    [load_account(c, a) EXCEPT ![a].balance = @ + v]

\* utils::decrease_account_balance (the caller has checked balance >= v)
decrease_account_balance(c, a, v) ==
    [load_account(c, a) EXCEPT ![a].balance = @ - v]

\* utils::increment_account_nonce
increment_account_nonce(c, a) ==
    [load_account(c, a) EXCEPT ![a].nonce = @ + 1]

\* cache::insert_account
insert_account(c, a, acc) == [c EXCEPT ![a] = acc]

\* cache::remove_account
remove_account(c, a) == [c EXCEPT ![a] = NoAccount]

\* precompiles::is_precompile: 1..=9 before Cancun, 1..=10 on Cancun, 1..=17 from Prague
is_precompile(a, f) ==
    a >= 1 /\ a <= (IF ForkGE(f, "Prague") THEN 17 ELSE IF ForkGE(f, "Cancun") THEN 10 ELSE 9)

\* utils::calculate_create_address / calculate_create2_address: the hash is
\* abstracted to the one address new contracts get
calculate_create_address(sender, nonce) == Addr.new

\* utils::has_delegation: the code is the designator 0xef0100 || address
has_delegation(code) == Len(code) = 4 /\ code[1] = 239 /\ code[2] = 1 /\ code[3] = 0

\* utils::get_authorized_address
get_authorized_address(code) == code[4]

\* ----------------------------------------------------------------- gas costs
\* gas_cost.rs is outside src/: the schedule is the spec's (section 4.D).
COLD_ADDRESS_ACCESS_COST == 2600
WARM_ADDRESS_ACCESS_COST == 100
COLD_STORAGE_ACCESS_COST == 2100
CALL_POSITIVE_VALUE == 9000
CALL_POSITIVE_VALUE_STIPEND == 2300
CALL_TO_EMPTY_ACCOUNT == 25000
CREATE_BASE_COST == 32000
CODE_DEPOSIT_COST == 200
SELFDESTRUCT_STATIC == 5000
SELFDESTRUCT_REFUND == 24000
TX_BASE_COST == 21000
MAX_CODE_SIZE == 24576
PRECOMPILE_COST == 3000
\* gas_cost::SSTORE_STIPEND
SSTORE_STIPEND == 2300
\* the depth limit of generic_call and generic_create
CALL_DEPTH_LIMIT == 1024

\* gas_cost::address_access_cost: cold 2600 / warm 100 from Berlin, the static 700 before
address_access_cost(was_cold, f) ==
    IF ForkGE(f, "Berlin")
    THEN (IF was_cold THEN COLD_ADDRESS_ACCESS_COST ELSE WARM_ADDRESS_ACCESS_COST)
    ELSE 700

\* gas_cost::sload
gas_cost_sload(was_cold, f) ==
    IF ForkGE(f, "Berlin")
    THEN (IF was_cold THEN COLD_STORAGE_ACCESS_COST ELSE WARM_ADDRESS_ACCESS_COST)
    ELSE 800

\* gas_cost::sstore (EIP-2200 / EIP-2929)
gas_cost_sstore(slot, new_value, was_cold, f) ==
    LET sload == IF ForkGE(f, "Berlin") THEN WARM_ADDRESS_ACCESS_COST ELSE 800
        reset == IF ForkGE(f, "Berlin") THEN 5000 - COLD_STORAGE_ACCESS_COST ELSE 5000
        base  == IF new_value = slot.current_value THEN sload
                 ELSE IF slot.current_value = slot.original_value
                      THEN (IF slot.original_value = 0 THEN 20000 ELSE reset)
                      ELSE sload
    IN  base + (IF ForkGE(f, "Berlin") /\ was_cold THEN COLD_STORAGE_ACCESS_COST ELSE 0)

\* gas_cost::TLOAD, gas_cost::TSTORE
gas_cost_tload == WARM_ADDRESS_ACCESS_COST

\* gas_cost::selfdestruct
gas_cost_selfdestruct(target_is_cold, account_is_empty, balance, f) ==
    SELFDESTRUCT_STATIC
    + (IF ForkGE(f, "Berlin") /\ target_is_cold THEN COLD_ADDRESS_ACCESS_COST ELSE 0)
    + (IF account_is_empty /\ balance > 0 THEN CALL_TO_EMPTY_ACCOUNT ELSE 0)

Min(a, b) == IF a <= b THEN a ELSE b

\* `Body` of the value `e`: a local definition whose value is computed once
Bind(e, Body(_)) == Body(e)

\* ------------------------------------------------------- memory, environment
\* memory.rs is outside src/ (section 4.C): the memory is a byte vector that grows
\* by 32-byte words, new bytes being 0.
Zeros(n) == [i \in 1..n |-> 0]

\* memory::calculate_memory_size: offset + size rounded up to 32; 0 for no bytes
calculate_memory_size(offset, size) ==
    IF size = 0 THEN 0 ELSE ((offset + size + 31) \div 32) * 32

\* memory::try_store_data: resize to hold the range, then write the bytes
try_store_data(memory, offset, data) ==
    LET new_size == calculate_memory_size(offset, Len(data))
        resized == IF new_size > Len(memory) THEN memory \o Zeros(new_size - Len(memory))
                   ELSE memory
    IN  [i \in 1..Len(resized) |->
            IF i > offset /\ i <= offset + Len(data) THEN data[i - offset] ELSE resized[i]]

\* a try_store_range that writes all of `data`, whatever the size of the range
try_store_range_whole(memory, offset, size, data) ==
    LET new_size == calculate_memory_size(offset, Len(data))
        resized == IF new_size > Len(memory) THEN memory \o Zeros(new_size - Len(memory))
                   ELSE memory
    IN  [i \in 1..Len(resized) |->
            IF i > offset /\ i <= offset + Len(data) THEN data[i - offset] ELSE resized[i]]

\* memory::try_store_range: nothing for a size of 0; else resize to hold the range
\* and write the bytes of `data` that fit in `size`
try_store_range(memory, offset, size, data) ==
    LET new_size == calculate_memory_size(offset, size)
        resized == IF new_size > Len(memory) THEN memory \o Zeros(new_size - Len(memory))
                   ELSE memory
    IN  [i \in 1..Len(resized) |->
            IF i > offset /\ i <= offset + Min(size, Len(data)) THEN data[i - offset]
            ELSE resized[i]]

\* gas_cost::memory_expansion_cost: the fee of the new word count less the fee of
\* the current one, a word count w costing 3 w + w^2 / 512
memory_expansion_cost(new_memory_size, current_memory_size) ==
    LET fee(w) == 3 * w + (w * w) \div 512
    IN  IF new_memory_size <= current_memory_size THEN 0
        ELSE fee(new_memory_size \div 32) - fee(current_memory_size \div 32)

\* gas_cost::call, callcode, delegatecall, staticcall (section 4.D and 4.I step 4):
\* the charges, then forwarded gas = min(stack gas, left - left/64), plus the
\* stipend for a value-bearing call.  ok = FALSE is OutOfGas.
gas_cost_call(new_memory_size, current_memory_size, was_cold, to_empty, value, gas_from_stack, gas_left, f) ==
    LET call_gas_costs ==
            memory_expansion_cost(new_memory_size, current_memory_size)
            + address_access_cost(was_cold, f)
            + (IF value # 0 THEN CALL_POSITIVE_VALUE ELSE 0)
            + (IF to_empty /\ value # 0 THEN CALL_TO_EMPTY_ACCOUNT ELSE 0)
        left == gas_left - call_gas_costs
        gas  == Min(gas_from_stack, left - (left \div 64))
    IN  IF left < 0
        THEN [ok |-> FALSE, cost |-> 0, gas_limit |-> 0]
        ELSE [ok |-> TRUE, cost |-> gas + call_gas_costs,
              gas_limit |-> gas + (IF value # 0 THEN CALL_POSITIVE_VALUE_STIPEND ELSE 0)]

\* gas_cost::max_message_call_gas: CREATE reserves all available gas (4.I CREATE step 2)
max_message_call_gas(frame) == frame.gas_limit - frame.gas_used

\* --------------------------------------------------------------- call frames
\* CallFrame::new
CallFrame(msg_sender, to, code_address, bytecode, msg_value, calldata, is_static, gas_limit, gas_used, depth, is_create) ==
    [msg_sender |-> msg_sender, to |-> to, code_address |-> code_address,
     bytecode |-> bytecode, msg_value |-> msg_value, calldata |-> calldata,
     is_static |-> is_static, gas_limit |-> gas_limit, gas_used |-> gas_used,
     depth |-> depth, is_create |-> is_create,
     pc |-> 0, stack |-> <<>>, sub_return_data |-> <<>>, output |-> <<>>,
     memory |-> <<>>, logs |-> <<>>]

\* the VM as one value, for the handlers below
VM ==
    [call_frames |-> call_frames, cache |-> cache, accrued_substate |-> accrued_substate,
     refunded_gas |-> refunded_gas, transient_storage |-> transient_storage,
     return_data |-> return_data, backups |-> backups]

\* VM::current_call_frame
current_call_frame(s) == s.call_frames[Len(s.call_frames)]

\* VM::current_call_frame_mut, as an update
with_frame(s, f) == [s EXCEPT !.call_frames[Len(s.call_frames)] = f]

\* CallFrame::increase_consumed_gas fails with OutOfGas when this is FALSE
gas_fits(f, gas) == f.gas_used + gas <= f.gas_limit

\* CallFrame::increase_consumed_gas
increase_consumed_gas(f, gas) == [f EXCEPT !.gas_used = @ + gas]

\* Stack::push
push(f, word) == [f EXCEPT !.stack = Append(@, word)]

\* the OpcodeResult / VMError a handler ends with, and the VM it leaves
Continue(s, inc) == [res |-> "Continue", pc_increment |-> inc, err |-> NoError, vm |-> s]
Halt(s) == [res |-> "Halt", pc_increment |-> 0, err |-> NoError, vm |-> s]
Err(s, e) == [res |-> "Err", pc_increment |-> 0, err |-> e, vm |-> s]

\* VMError::is_internal
is_internal(e) == e = "Internal"

\* StateBackup::new
StateBackup(c, substate, refund, transient) ==
    [cache |-> c, substate |-> substate, refunded_gas |-> refund,
     transient_storage |-> transient]

\* utils::access_account: warms the address; reads the info without caching it
access_account(s, a) ==
    [vm |-> [s EXCEPT !.accrued_substate.touched_accounts = @ \cup {a}],
     info |-> get_account(s.cache, a),
     was_cold |-> a \notin s.accrued_substate.touched_accounts]

\* an eip7702_get_code that names the delegated account as the code address
eip7702_get_code_naming_the_delegate(s, a) ==
    LET s1 == [s EXCEPT !.cache = load_account(@, a)]
        code == s1.cache[a].code
    IN  IF ~has_delegation(code)
        THEN [vm |-> s1, is_delegation |-> FALSE, gas |-> 0, code_address |-> a,
              bytecode |-> code]
        ELSE LET auth == get_authorized_address(code)
                 warm == auth \in s1.accrued_substate.touched_accounts
                 s2 == [s1 EXCEPT !.accrued_substate.touched_accounts = @ \cup {auth},
                                  !.cache = load_account(@, auth)]
             IN  [vm |-> s2, is_delegation |-> TRUE,
                  gas |-> IF warm THEN WARM_ADDRESS_ACCESS_COST ELSE COLD_ADDRESS_ACCESS_COST,
                  code_address |-> auth, bytecode |-> s2.cache[auth].code]

\* utils::eip7702_get_code: (is_delegation, access cost, code_address, bytecode)
eip7702_get_code(s, a) ==
    LET s1 == [s EXCEPT !.cache = load_account(@, a)]
        code == s1.cache[a].code
    IN  IF ~has_delegation(code)
        THEN [vm |-> s1, is_delegation |-> FALSE, gas |-> 0, code_address |-> a,
              bytecode |-> code]
        ELSE LET auth == get_authorized_address(code)
                 warm == auth \in s1.accrued_substate.touched_accounts
                 s2 == [s1 EXCEPT !.accrued_substate.touched_accounts = @ \cup {auth},
                                  !.cache = load_account(@, auth)]
             IN  [vm |-> s2, is_delegation |-> TRUE,
                  gas |-> IF warm THEN WARM_ADDRESS_ACCESS_COST ELSE COLD_ADDRESS_ACCESS_COST,
                  code_address |-> a, bytecode |-> s2.cache[auth].code]

\* restore_state leaving the transient storage as the frame left it
restore_state_keeping_transient(s, backup) ==
    [s EXCEPT !.cache = backup.cache,
              !.accrued_substate = backup.substate,
              !.refunded_gas = backup.refunded_gas]

\* restore_state leaving the substate as the frame left it
restore_state_keeping_substate(s, backup) ==
    [s EXCEPT !.cache = backup.cache,
              !.refunded_gas = backup.refunded_gas,
              !.transient_storage = backup.transient_storage]

\* restore_state leaving the cache as the frame left it
restore_state_keeping_cache(s, backup) ==
    [s EXCEPT !.accrued_substate = backup.substate,
              !.refunded_gas = backup.refunded_gas,
              !.transient_storage = backup.transient_storage]

\* restore_state leaving the refund counter as the frame left it
restore_state_keeping_refund(s, backup) ==
    [s EXCEPT !.cache = backup.cache,
              !.accrued_substate = backup.substate,
              !.transient_storage = backup.transient_storage]

\* ------------------------------------------------ snapshot, restore, return
\* VM::restore_state
restore_state(s, backup) ==
    [s EXCEPT !.cache = backup.cache,
              !.accrued_substate = backup.substate,
              !.refunded_gas = backup.refunded_gas,
              !.transient_storage = backup.transient_storage]

\* ExecutionReport
ExecutionReport(result, error, gas_used, gas_refunded, output) ==
    [result |-> result, error |-> error, gas_used |-> gas_used,
     gas_refunded |-> gas_refunded, logs |-> <<>>, output |-> output]

NoReport == ExecutionReport("None", NoError, 0, 0, <<>>)

\* what a handler of the return protocol yields: the VM, the frame it worked on,
\* the report, and whether an error left it through `?`
Handled(s, frame, rep) ==
    [vm |-> s, frame |-> frame, report |-> rep, failed |-> FALSE, returned |-> FALSE]
Failed(s, frame) ==
    [vm |-> s, frame |-> frame, report |-> NoReport, failed |-> TRUE, returned |-> FALSE]

pop_backup(s) == [s EXCEPT !.backups = SubSeq(@, 1, Len(@) - 1)]
last_backup(s) == s.backups[Len(s.backups)]

\* VM::handle_opcode_result (execution_handlers.rs is outside src/; sections 4.G and
\* 4.I CREATE step 7): pops the backup; a create frame's output is validated
\* (EIP-170, EIP-3541), charged 200 gas per byte and becomes the account's code,
\* and a failed validation reverts like an exceptional halt.
handle_opcode_result(s, frame) ==
    IF Len(s.backups) = 0 THEN Failed(s, frame)
    ELSE
    LET backup == last_backup(s)
        s1 == pop_backup(s)
        code == frame.output
        deposit == Len(code) * CODE_DEPOSIT_COST
        invalid == \/ Len(code) > MAX_CODE_SIZE
                   \/ (Len(code) > 0 /\ code[1] = 239 /\ ForkGE(fork, "London"))
                   \/ ~gas_fits(frame, deposit)
    IN  IF (tx_kind = "Create" /\ frame.depth = 0) \/ frame.is_create
        THEN IF invalid
             THEN LET f1 == [frame EXCEPT !.gas_used = frame.gas_limit, !.output = <<>>]
                      s2 == restore_state(s1, backup)
                  IN  Handled(s2, f1,
                              ExecutionReport("Revert", "InvalidCode", f1.gas_used,
                                              s2.refunded_gas, <<>>))
             ELSE LET f1 == [increase_consumed_gas(frame, deposit) EXCEPT !.output = <<>>]
                      s2 == [s1 EXCEPT !.cache = [load_account(@, frame.to)
                                                   EXCEPT ![frame.to].code = code]]
                  IN  Handled(s2, f1,
                              [ExecutionReport("Success", NoError, f1.gas_used,
                                               s2.refunded_gas, <<>>)
                                  EXCEPT !.logs = frame.logs])
        ELSE Handled(s1, [frame EXCEPT !.output = <<>>],
                     [ExecutionReport("Success", NoError, frame.gas_used,
                                      s1.refunded_gas, frame.output)
                         EXCEPT !.logs = frame.logs])

\* VM::handle_opcode_error (outside src/; sections 4.G and 7): pops the backup; an
\* Internal error leaves run_execution; every error but RevertOpcode consumes all
\* the frame's gas and yields no output; the backup is restored.
handle_opcode_error(s, error, frame) ==
    IF Len(s.backups) = 0 \/ is_internal(error) THEN Failed(s, frame)
    ELSE
    LET backup == last_backup(s)
        s1 == pop_backup(s)
        f1 == IF error # "RevertOpcode"
              THEN [frame EXCEPT !.gas_used = frame.gas_limit, !.output = <<>>]
              ELSE [frame EXCEPT !.output = <<>>]
        out == IF error = "RevertOpcode" THEN frame.output ELSE <<>>
    IN  Handled(restore_state(s1, backup), f1,
                ExecutionReport("Revert", error, f1.gas_used, backup.refunded_gas, out))

\* handle_return_call reporting success to the parent whatever the child's result
handle_return_call_pushing_success(s, call_frame, tx_report, retdata) ==
    LET gas_left_from_new_call_frame == call_frame.gas_limit - tx_report.gas_used
        parent == current_call_frame(s)
        p1 == [parent EXCEPT !.gas_used = @ - gas_left_from_new_call_frame,
                             !.logs = @ \o tx_report.logs,
                             !.memory = try_store_range(@, retdata.ret_offset,
                                                        retdata.ret_size, tx_report.output),
                             !.sub_return_data = tx_report.output]
    IN  IF gas_left_from_new_call_frame < 0 \/ p1.gas_used < 0 THEN Failed(s, call_frame)
        ELSE Handled(with_frame(s, push(p1, 1)), call_frame, tx_report)

\* handle_return_call leaving the transferred value with the callee on failure
handle_return_call_keeping_transfer(s, call_frame, tx_report, retdata) ==
    LET gas_left_from_new_call_frame == call_frame.gas_limit - tx_report.gas_used
        parent == current_call_frame(s)
        p1 == [parent EXCEPT !.gas_used = @ - gas_left_from_new_call_frame,
                             !.logs = @ \o tx_report.logs,
                             !.memory = try_store_range(@, retdata.ret_offset,
                                                        retdata.ret_size, tx_report.output),
                             !.sub_return_data = tx_report.output]
    IN  IF gas_left_from_new_call_frame < 0 \/ p1.gas_used < 0 THEN Failed(s, call_frame)
        ELSE Handled(with_frame(s, push(p1, IF tx_report.result = "Success" THEN 1 ELSE 0)),
                     call_frame, tx_report)

\* handle_return_call giving the parent none of the child's unused gas
handle_return_call_keeping_gas(s, call_frame, tx_report, retdata) ==
    LET parent == current_call_frame(s)
        p1 == [parent EXCEPT !.sub_return_data = tx_report.output]
    IN  IF tx_report.result = "Success"
        THEN Handled(with_frame(s, push(p1, 1)), call_frame, tx_report)
        ELSE IF retdata.should_transfer_value
        THEN Handled(
               with_frame(
                 [s EXCEPT !.cache =
                     increase_account_balance(
                         decrease_account_balance(@, retdata.to, retdata.value),
                         retdata.msg_sender, retdata.value)],
                 push(p1, 0)),
               call_frame, tx_report)
        ELSE Handled(with_frame(s, push(p1, 0)), call_frame, tx_report)

\* handle_return_call leaving the caller without the return data
handle_return_call_dropping_output(s, call_frame, tx_report, retdata) ==
    LET gas_left_from_new_call_frame == call_frame.gas_limit - tx_report.gas_used
        parent == current_call_frame(s)
        p1 == [parent EXCEPT !.gas_used = @ - gas_left_from_new_call_frame,
                             !.sub_return_data = <<>>]
    IN  IF gas_left_from_new_call_frame < 0 \/ p1.gas_used < 0 THEN Failed(s, call_frame)
        ELSE IF tx_report.result = "Success"
        THEN Handled(with_frame(s, push(p1, 1)), call_frame, tx_report)
        ELSE IF retdata.should_transfer_value
        THEN IF get_account(s.cache, retdata.to).balance < retdata.value
             THEN Failed(with_frame(s, p1), call_frame)
             ELSE Handled(
                    with_frame(
                      [s EXCEPT !.cache =
                          increase_account_balance(
                              decrease_account_balance(@, retdata.to, retdata.value),
                              retdata.msg_sender, retdata.value)],
                      push(p1, 0)),
                    call_frame, tx_report)
        ELSE Handled(with_frame(s, push(p1, 0)), call_frame, tx_report)

\* VM::handle_return_call
handle_return_call(s, call_frame, tx_report, retdata) ==
    LET gas_left_from_new_call_frame == call_frame.gas_limit - tx_report.gas_used
        parent == current_call_frame(s)
        p1 == [parent EXCEPT !.gas_used = @ - gas_left_from_new_call_frame,
                             !.logs = @ \o tx_report.logs,
                             !.memory = try_store_range(@, retdata.ret_offset,
                                                        retdata.ret_size, tx_report.output),
                             !.sub_return_data = tx_report.output]
    IN  IF gas_left_from_new_call_frame < 0 \/ p1.gas_used < 0 THEN Failed(s, call_frame)
        ELSE IF tx_report.result = "Success"
        THEN Handled(with_frame(s, push(p1, 1)), call_frame, tx_report)
        ELSE IF retdata.should_transfer_value
        THEN IF get_account(s.cache, retdata.to).balance < retdata.value
             THEN Failed(with_frame(s, p1), call_frame)
             ELSE Handled(
                    with_frame(
                      [s EXCEPT !.cache =
                          increase_account_balance(
                              decrease_account_balance(@, retdata.to, retdata.value),
                              retdata.msg_sender, retdata.value)],
                      push(p1, 0)),
                    call_frame, tx_report)
        ELSE Handled(with_frame(s, push(p1, 0)), call_frame, tx_report)

\* a handle_return_create that does not give the value back to the deployer
handle_return_create_keeping_value(s, call_frame, tx_report, retdata) ==
    LET unused_gas == retdata.max_message_call_gas - tx_report.gas_used
        parent == current_call_frame(s)
        p1 == [parent EXCEPT !.gas_used = @ - unused_gas, !.logs = @ \o tx_report.logs]
    IN  IF unused_gas < 0 \/ p1.gas_used < 0 THEN Failed(s, call_frame)
        ELSE IF tx_report.result = "Success"
        THEN Handled(with_frame(s, push(p1, retdata.to)), call_frame, tx_report)
        ELSE
        LET s1 == [s EXCEPT
                     !.cache = remove_account(
                                 increase_account_balance(@, retdata.msg_sender, 0),
                                 retdata.to),
                     !.accrued_substate.created_accounts = @ \ {retdata.to}]
            p2 == IF tx_report.error = "RevertOpcode"
                  THEN [p1 EXCEPT !.sub_return_data = tx_report.output]
                  ELSE p1
        IN  Handled(with_frame(s1, push(p2, 0)), call_frame, tx_report)

\* VM::handle_return_create
handle_return_create(s, call_frame, tx_report, retdata) ==
    LET unused_gas == retdata.max_message_call_gas - tx_report.gas_used
        parent == current_call_frame(s)
        p1 == [parent EXCEPT !.gas_used = @ - unused_gas, !.logs = @ \o tx_report.logs]
    IN  IF unused_gas < 0 \/ p1.gas_used < 0 THEN Failed(s, call_frame)
        ELSE IF tx_report.result = "Success"
        THEN Handled(with_frame(s, push(p1, retdata.to)), call_frame, tx_report)
        ELSE
        LET s1 == [s EXCEPT
                     !.cache = remove_account(
                                 increase_account_balance(@, retdata.msg_sender, retdata.value),
                                 retdata.to),
                     !.accrued_substate.created_accounts = @ \ {retdata.to}]
            p2 == IF tx_report.error = "RevertOpcode"
                  THEN [p1 EXCEPT !.sub_return_data = tx_report.output]
                  ELSE p1
        IN  Handled(with_frame(s1, push(p2, 0)), call_frame, tx_report)

\* VM::handle_return: `returned` is its Ok(false), the depth-0 frame put back
handle_return(s, call_frame, tx_report) ==
    IF call_frame.depth = 0
    THEN [Handled([s EXCEPT !.call_frames = Append(@, call_frame)], call_frame, tx_report)
            EXCEPT !.returned = TRUE]
    ELSE IF Len(s.return_data) = 0 THEN [Failed(s, call_frame) EXCEPT !.returned = FALSE]
    ELSE
    LET retdata == s.return_data[Len(s.return_data)]
        s1 == [s EXCEPT !.return_data = SubSeq(@, 1, Len(@) - 1)]
    IN  [(IF retdata.is_create
          THEN handle_return_create(s1, call_frame, tx_report, retdata)
          ELSE handle_return_call(s1, call_frame, tx_report, retdata))
            EXCEPT !.returned = FALSE]

\* ------------------------------------------------------------- precompiles
\* precompiles::execute_precompile (outside src/; section 4.K): a pure function of
\* the input and the gas limit; it fails when the gas does not cover its cost
execute_precompile(frame) ==
    IF frame.gas_limit - frame.gas_used < PRECOMPILE_COST
    THEN [ok |-> FALSE, frame |-> frame, output |-> <<>>]
    ELSE [ok |-> TRUE, frame |-> increase_consumed_gas(frame, PRECOMPILE_COST),
          output |-> <<1>>]

\* VM::handle_precompile_result (outside src/; section 4.K)
handle_precompile_result(s, result, backup, frame) ==
    IF result.ok
    THEN Handled(s, result.frame,
                 ExecutionReport("Success", NoError, result.frame.gas_used,
                                 s.refunded_gas, result.output))
    ELSE LET s1 == restore_state(s, backup)
         IN  Handled(s1, frame,
                     ExecutionReport("Revert", "PrecompileError", frame.gas_limit,
                                     s1.refunded_gas, <<>>))

\* what run_execution yields: the VM, and whether it goes on ("running", with the
\* report of the frame it has just popped, if any), returned a report ("returned")
\* or returned an error ("error")
Running(s, rep) == [vm |-> s, status |-> "running", report |-> rep]
Returned(s, rep) == [vm |-> s, status |-> "returned", report |-> rep]
Aborted(s) == [vm |-> s, status |-> "error", report |-> NoReport]

increment_pc_by(s, n) ==
    with_frame(s, [current_call_frame(s) EXCEPT !.pc = @ + n])

\* the precompile branch of run_execution without its increment of pc
run_execution_precompile_keeping_pc(s) ==
    LET frame == current_call_frame(s)
        popped == [s EXCEPT !.call_frames = SubSeq(@, 1, Len(@) - 1)]
    IN  IF Len(popped.backups) = 0 THEN Aborted(popped)
        ELSE
        Bind(handle_precompile_result(pop_backup(popped), execute_precompile(frame),
                                      last_backup(popped), frame), LAMBDA h :
        Bind(handle_return(h.vm, h.frame, h.report), LAMBDA ret :
            IF ret.failed THEN Aborted(ret.vm)
            ELSE Returned(ret.vm, h.report)))

\* VM::run_execution, the branch taken when the current frame runs a precompile
run_execution_precompile(s) ==
    LET frame == current_call_frame(s)
        popped == [s EXCEPT !.call_frames = SubSeq(@, 1, Len(@) - 1)]
    IN  IF Len(popped.backups) = 0 THEN Aborted(popped)
        ELSE
        Bind(handle_precompile_result(pop_backup(popped), execute_precompile(frame),
                                      last_backup(popped), frame), LAMBDA h :
        Bind(handle_return(h.vm, h.frame, h.report), LAMBDA ret :
            IF ret.failed THEN Aborted(ret.vm)
            ELSE Returned(increment_pc_by(ret.vm, 1), h.report)))

\* a run_execution that leaves the pc of the frame it returns to where it is
run_execution_turn_returning_in_place(r) ==
    IF r.res = "Continue" THEN Running(increment_pc_by(r.vm, r.pc_increment), NoReport)
    ELSE
    LET frame == current_call_frame(r.vm)
        popped == [r.vm EXCEPT !.call_frames = SubSeq(@, 1, Len(@) - 1)]
    IN  Bind(IF r.res = "Halt"
             THEN handle_opcode_result(popped, frame)
             ELSE handle_opcode_error(popped, r.err, frame), LAMBDA h :
            IF h.failed THEN Aborted(h.vm)
            ELSE Bind(handle_return(h.vm, h.frame, h.report), LAMBDA ret :
                     IF ret.failed THEN Aborted(ret.vm)
                     ELSE IF ret.returned THEN Returned(ret.vm, h.report)
                     ELSE Running(increment_pc_by(ret.vm, 0), h.report)))

\* VM::run_execution, one turn of its loop on the result of handle_current_opcode
run_execution_turn(r) ==
    IF r.res = "Continue" THEN Running(increment_pc_by(r.vm, r.pc_increment), NoReport)
    ELSE
    LET frame == current_call_frame(r.vm)
        popped == [r.vm EXCEPT !.call_frames = SubSeq(@, 1, Len(@) - 1)]
    IN  Bind(IF r.res = "Halt"
             THEN handle_opcode_result(popped, frame)
             ELSE handle_opcode_error(popped, r.err, frame), LAMBDA h :
            IF h.failed THEN Aborted(h.vm)
            ELSE Bind(handle_return(h.vm, h.frame, h.report), LAMBDA ret :
                     IF ret.failed THEN Aborted(ret.vm)
                     ELSE IF ret.returned THEN Returned(ret.vm, h.report)
                     ELSE Running(increment_pc_by(ret.vm, 1), h.report)))

\* ------------------------------------------------------------------ opcodes
\* STOP
op_stop(s) == Halt(s)

\* VM::op_return
op_return(s, data) ==
    IF Len(data) = 0 THEN Halt(s)
    ELSE Halt(with_frame(s, [current_call_frame(s) EXCEPT !.output = data]))

\* VM::op_log (logging.rs is outside src/; CallFrame.logs of section 3): LOG0 of the
\* bytes `data`, 375 gas and 8 per byte, refused in a static frame
op_log(s, data) ==
    LET f == current_call_frame(s)
        cost == 375 + 8 * Len(data)
    IN  IF f.is_static THEN Err(s, "OpcodeNotAllowedInStaticContext")
        ELSE IF ~gas_fits(f, cost) THEN Err(s, "OutOfGas")
        ELSE Continue(with_frame(s, [increase_consumed_gas(f, cost) EXCEPT
                                       !.logs = Append(@, [address |-> f.to,
                                                           data |-> data])]), 1)

\* VM::op_revert
op_revert(s, data) ==
    IF ~ForkGE(fork, "Byzantium") THEN Err(s, "InvalidOpcode")
    ELSE Err(with_frame(s, [current_call_frame(s) EXCEPT !.output = data]), "RevertOpcode")

\* VM::op_invalid
op_invalid(s) == Err(s, "InvalidOpcode")

\* op_tload reading the entry of the frame's code address
op_tload_by_code_address(s, key) ==
    LET f == current_call_frame(s)
        stored == s.transient_storage[<<f.code_address, key>>]
        value == IF stored = NoSlot THEN 0 ELSE stored.value
    IN  IF ~ForkGE(fork, "Cancun") THEN Err(s, "InvalidOpcode")
        ELSE IF ~gas_fits(f, gas_cost_tload) THEN Err(s, "OutOfGas")
        ELSE Continue(with_frame(s, push(increase_consumed_gas(f, gas_cost_tload), value)), 1)

\* VM::op_tload
op_tload(s, key) ==
    LET f == current_call_frame(s)
        stored == s.transient_storage[<<f.to, key>>]
        value == IF stored = NoSlot THEN 0 ELSE stored.value
    IN  IF ~ForkGE(fork, "Cancun") THEN Err(s, "InvalidOpcode")
        ELSE IF ~gas_fits(f, gas_cost_tload) THEN Err(s, "OutOfGas")
        ELSE Continue(with_frame(s, push(increase_consumed_gas(f, gas_cost_tload), value)), 1)

\* op_tstore without the check of the static context
op_tstore_unchecked(s, key, value) ==
    LET f == current_call_frame(s)
        f1 == increase_consumed_gas(f, gas_cost_tload)
    IN  IF ~ForkGE(fork, "Cancun") THEN Err(s, "InvalidOpcode")
        ELSE IF ~gas_fits(f, gas_cost_tload) THEN Err(s, "OutOfGas")
        ELSE Continue([with_frame(s, f1) EXCEPT
                          !.transient_storage[<<f.to, key>>] = [value |-> value]], 1)

\* VM::op_tstore
op_tstore(s, key, value) ==
    LET f == current_call_frame(s)
        f1 == increase_consumed_gas(f, gas_cost_tload)
    IN  IF ~ForkGE(fork, "Cancun") THEN Err(s, "InvalidOpcode")
        ELSE IF ~gas_fits(f, gas_cost_tload) THEN Err(s, "OutOfGas")
        ELSE IF f.is_static THEN Err(with_frame(s, f1), "OpcodeNotAllowedInStaticContext")
        ELSE Continue([with_frame(s, f1) EXCEPT
                          !.transient_storage[<<f.to, key>>] = [value |-> value]], 1)

\* VM::access_storage_slot
access_storage_slot(s, address, key) ==
    LET was_cold == /\ ForkGE(fork, "Berlin")
                    /\ key \notin s.accrued_substate.touched_storage_slots[address]
        s1 == IF ForkGE(fork, "Berlin")
              THEN [s EXCEPT !.accrued_substate.touched_storage_slots[address] = @ \cup {key}]
              ELSE s
        from_store == [original_value |-> store_get_storage_slot(address, key),
                       current_value |-> store_get_storage_slot(address, key)]
        storage_slot ==
            IF s.cache[address] # NoAccount /\ s.cache[address].storage[key] # NoSlot
            THEN s.cache[address].storage[key]
            ELSE from_store
    IN  [vm |-> [s1 EXCEPT !.cache = [load_account(@, address)
                                        EXCEPT ![address].storage[key] = storage_slot]],
         slot |-> storage_slot, was_cold |-> was_cold]

\* VM::update_account_storage
update_account_storage(s, address, key, new_value) ==
    LET c == load_account(s.cache, address)
        original == IF c[address].storage[key] = NoSlot THEN 0
                    ELSE c[address].storage[key].original_value
    IN  [s EXCEPT !.cache = [c EXCEPT ![address].storage[key] =
                                [original_value |-> original, current_value |-> new_value]]]

\* ------------------------------------------------------------------- jumps
gas_cost_jump == 8
\* gas_cost::JUMPI
gas_cost_jumpi == 10

\* the scan of CallFrame::new for valid_jump_destinations (call_frame.rs is outside
\* src/; section 4.C): the positions that hold a JUMPDEST (0x5b) and are not in the
\* immediate bytes of a PUSH1..PUSH32 (0x60..0x7f)
valid_jump_destinations(bytecode) ==
    LET n == Len(bytecode)
        after(p) == IF p >= n THEN n
                    ELSE IF bytecode[p + 1] >= 96 /\ bytecode[p + 1] <= 127
                    THEN Min(n, p + 2 + (bytecode[p + 1] - 96))
                    ELSE p + 1
        opcode_at[k \in 0..n] == IF k = 0 THEN 0 ELSE after(opcode_at[k - 1])
    IN  {p \in {opcode_at[k] : k \in 0..n} : p < n /\ bytecode[p + 1] = 91}

\* VM::is_valid_jump_addr
is_valid_jump_addr(call_frame, jump_address) ==
    jump_address \in valid_jump_destinations(call_frame.bytecode)

\* op_jump without its gas charge
op_jump_free(s, jump_address) ==
    LET f == current_call_frame(s)
    IN  IF ~is_valid_jump_addr(f, jump_address) THEN Err(s, "InvalidJump")
        ELSE Continue(with_frame(s, [f EXCEPT !.pc = jump_address]), 0)

\* VM::op_jump and VM::jump
op_jump(s, jump_address) ==
    LET f == current_call_frame(s)
        f1 == increase_consumed_gas(f, gas_cost_jump)
    IN  IF ~gas_fits(f, gas_cost_jump) THEN Err(s, "OutOfGas")
        ELSE IF ~is_valid_jump_addr(f1, jump_address) THEN Err(with_frame(s, f1), "InvalidJump")
        ELSE Continue(with_frame(s, [f1 EXCEPT !.pc = jump_address]), 0)

\* an op_jumpi that validates the destination whatever the condition
op_jumpi_always_validating(s, jump_address, condition) ==
    LET f == current_call_frame(s)
        f1 == increase_consumed_gas(f, gas_cost_jumpi)
    IN  IF ~gas_fits(f, gas_cost_jumpi) THEN Err(s, "OutOfGas")
        ELSE IF ~is_valid_jump_addr(f1, jump_address)
        THEN Err(with_frame(s, f1), "InvalidJump")
        ELSE IF condition # 0
        THEN Continue(with_frame(s, [f1 EXCEPT !.pc = jump_address]), 0)
        ELSE Continue(with_frame(s, f1), 1)

\* VM::op_jumpi and VM::jump
op_jumpi(s, jump_address, condition) ==
    LET f == current_call_frame(s)
        f1 == increase_consumed_gas(f, gas_cost_jumpi)
    IN  IF ~gas_fits(f, gas_cost_jumpi) THEN Err(s, "OutOfGas")
        ELSE IF condition # 0
        THEN IF ~is_valid_jump_addr(f1, jump_address)
             THEN Err(with_frame(s, f1), "InvalidJump")
             ELSE Continue(with_frame(s, [f1 EXCEPT !.pc = jump_address]), 0)
        ELSE Continue(with_frame(s, f1), 1)

\* VM::op_sload
op_sload(s, key) ==
    Bind(current_call_frame(s), LAMBDA f :
    Bind(access_storage_slot(s, f.to, key), LAMBDA acc :
    Bind(gas_cost_sload(acc.was_cold, fork), LAMBDA cost :
        IF ~gas_fits(f, cost) THEN Err(acc.vm, "OutOfGas")
        ELSE Continue(with_frame(acc.vm,
                                 push(increase_consumed_gas(f, cost),
                                      acc.slot.current_value)), 1))))

\* the refund of SSTORE without the additions for a slot written back to its
\* original value
sstore_refund_without_restore(gas_refunds, slot, new_value, f) ==
    LET remove_slot_cost == IF f = "Constantinople" THEN 15000
                            ELSE IF ForkGE(f, "Istanbul") /\ ~ForkGE(f, "Berlin") THEN 15000
                            ELSE 4800
        original == slot.original_value
        current == slot.current_value
        r1 == IF original # 0
              THEN (IF current = 0 THEN gas_refunds - remove_slot_cost
                    ELSE IF new_value = 0 THEN gas_refunds + remove_slot_cost
                    ELSE gas_refunds)
              ELSE gas_refunds
    IN  IF ~ForkGE(f, "Istanbul") /\ f # "Constantinople"
        THEN [ok |-> TRUE,
              refund |-> IF current # 0 /\ new_value = 0 THEN gas_refunds + 15000
                         ELSE gas_refunds]
        ELSE IF new_value # current
        THEN IF current = original
             THEN [ok |-> TRUE,
                   refund |-> IF original # 0 /\ new_value = 0
                              THEN gas_refunds + remove_slot_cost ELSE gas_refunds]
             ELSE IF r1 < 0 THEN [ok |-> FALSE, refund |-> gas_refunds]
             ELSE [ok |-> TRUE, refund |-> r1]
        ELSE [ok |-> TRUE, refund |-> gas_refunds]

\* the refund of SSTORE with the Berlin amounts on every fork that meters net
sstore_refund_one_schedule(gas_refunds, slot, new_value, f) ==
    LET original == slot.original_value
        current == slot.current_value
        r1 == IF original # 0
              THEN (IF current = 0 THEN gas_refunds - 4800
                    ELSE IF new_value = 0 THEN gas_refunds + 4800
                    ELSE gas_refunds)
              ELSE gas_refunds
        r2 == IF new_value = original
              THEN (IF original = 0 THEN r1 + 19900 ELSE r1 + 2800)
              ELSE r1
    IN  IF ~ForkGE(f, "Istanbul") /\ f # "Constantinople"
        THEN [ok |-> TRUE,
              refund |-> IF current # 0 /\ new_value = 0 THEN gas_refunds + 15000
                         ELSE gas_refunds]
        ELSE IF new_value # current
        THEN IF current = original
             THEN [ok |-> TRUE,
                   refund |-> IF original # 0 /\ new_value = 0
                              THEN gas_refunds + 4800 ELSE gas_refunds]
             ELSE IF r1 < 0 THEN [ok |-> FALSE, refund |-> gas_refunds]
             ELSE [ok |-> TRUE, refund |-> r2]
        ELSE [ok |-> TRUE, refund |-> gas_refunds]

\* the refund SSTORE leaves in env.refunded_gas: [ok, refund], ok = FALSE being
\* GasRefundsUnderflow (op_sstore, "Gas Refunds")
sstore_refund(gas_refunds, slot, new_value, f) ==
    LET remove_slot_cost == IF f = "Constantinople" THEN 15000
                            ELSE IF ForkGE(f, "Istanbul") /\ ~ForkGE(f, "Berlin") THEN 15000
                            ELSE 4800
        restore_empty_slot_cost == IF f = "Constantinople" THEN 19800
                                   ELSE IF ForkGE(f, "Istanbul") /\ ~ForkGE(f, "Berlin") THEN 19200
                                   ELSE 19900
        restore_slot_cost == IF f = "Constantinople" THEN 4800
                             ELSE IF ForkGE(f, "Istanbul") /\ ~ForkGE(f, "Berlin") THEN 4200
                             ELSE 2800
        original == slot.original_value
        current == slot.current_value
        \* the first adjustment of the dirty-slot branch
        r1 == IF original # 0
              THEN (IF current = 0 THEN gas_refunds - remove_slot_cost
                    ELSE IF new_value = 0 THEN gas_refunds + remove_slot_cost
                    ELSE gas_refunds)
              ELSE gas_refunds
        r2 == IF new_value = original
              THEN (IF original = 0 THEN r1 + restore_empty_slot_cost
                    ELSE r1 + restore_slot_cost)
              ELSE r1
    IN  IF ~ForkGE(f, "Istanbul") /\ f # "Constantinople"
        THEN [ok |-> TRUE,
              refund |-> IF current # 0 /\ new_value = 0 THEN gas_refunds + 15000
                         ELSE gas_refunds]
        ELSE IF new_value # current
        THEN IF current = original
             THEN [ok |-> TRUE,
                   refund |-> IF original # 0 /\ new_value = 0
                              THEN gas_refunds + remove_slot_cost ELSE gas_refunds]
             ELSE IF r1 < 0 THEN [ok |-> FALSE, refund |-> gas_refunds]
             ELSE [ok |-> TRUE, refund |-> r2]
        ELSE [ok |-> TRUE, refund |-> gas_refunds]

\* an op_sstore that compares the gas left with the stipend after it has accessed
\* the slot
op_sstore_checking_stipend_late(s, key, new_value) ==
    Bind(current_call_frame(s), LAMBDA f :
    Bind(access_storage_slot(s, f.to, key), LAMBDA acc :
    Bind(sstore_refund(s.refunded_gas, acc.slot, new_value, fork), LAMBDA refund :
    Bind([acc.vm EXCEPT !.refunded_gas = refund.refund], LAMBDA s1 :
    Bind(gas_cost_sstore(acc.slot, new_value, acc.was_cold, fork), LAMBDA cost :
        IF f.is_static THEN Err(s, "OpcodeNotAllowedInStaticContext")
        ELSE IF f.gas_limit - f.gas_used <= SSTORE_STIPEND THEN Err(acc.vm, "OutOfGas")
        ELSE IF ~refund.ok THEN Err(acc.vm, "GasRefundsUnderflow")
        ELSE IF ~gas_fits(f, cost) THEN Err(s1, "OutOfGas")
        ELSE Continue(update_account_storage(
                          with_frame(s1, increase_consumed_gas(f, cost)),
                          f.to, key, new_value), 1))))))

\* VM::op_sstore
op_sstore(s, key, new_value) ==
    Bind(current_call_frame(s), LAMBDA f :
    Bind(access_storage_slot(s, f.to, key), LAMBDA acc :
    Bind(sstore_refund(s.refunded_gas, acc.slot, new_value, fork), LAMBDA refund :
    Bind([acc.vm EXCEPT !.refunded_gas = refund.refund], LAMBDA s1 :
    Bind(gas_cost_sstore(acc.slot, new_value, acc.was_cold, fork), LAMBDA cost :
        IF f.is_static THEN Err(s, "OpcodeNotAllowedInStaticContext")
        ELSE IF f.gas_limit - f.gas_used <= SSTORE_STIPEND THEN Err(s, "OutOfGas")
        ELSE IF ~refund.ok THEN Err(acc.vm, "GasRefundsUnderflow")
        ELSE IF ~gas_fits(f, cost) THEN Err(s1, "OutOfGas")
        ELSE Continue(update_account_storage(
                          with_frame(s1, increase_consumed_gas(f, cost)),
                          f.to, key, new_value), 1))))))

\* op_selfdestruct destroying on Cancun as before it: the balance is set to 0 and
\* the contract joins selfdestruct_set whether the transaction created it or not
op_selfdestruct_always_destroying(s, target_address) ==
    Bind(current_call_frame(s), LAMBDA f :
    Bind(access_account(s, target_address), LAMBDA t1 :
    Bind(access_account(t1.vm, f.to), LAMBDA t2 :
    Bind(gas_cost_selfdestruct(t1.was_cold,
                               IF ForkGE(fork, "SpuriousDragon") THEN is_empty(t1.info)
                               ELSE ~account_exists(s.cache, target_address),
                               t2.info.balance, fork), LAMBDA cost :
    Bind(with_frame(t2.vm, increase_consumed_gas(f, cost)), LAMBDA s1 :
    Bind(increase_account_balance(s1.cache, target_address, t2.info.balance),
         LAMBDA credited :
    Bind([s1 EXCEPT
            !.cache = [credited EXCEPT ![f.to].balance = 0],
            !.refunded_gas =
                IF ~ForkGE(fork, "London")
                   /\ f.to \notin s1.accrued_substate.selfdestruct_set
                THEN @ + SELFDESTRUCT_REFUND ELSE @,
            !.accrued_substate.selfdestruct_set = @ \cup {f.to}], LAMBDA s2 :
        IF f.is_static THEN Err(s, "OpcodeNotAllowedInStaticContext")
        ELSE IF ~gas_fits(f, cost) THEN Err(t2.vm, "OutOfGas")
        ELSE Halt(IF account_exists(s2.cache, target_address) /\ is_empty(t1.info)
                  THEN [s2 EXCEPT
                          !.accrued_substate.touched_accounts = @ \cup {target_address}]
                  ELSE s2))))))))

\* VM::op_selfdestruct
op_selfdestruct(s, target_address) ==
    Bind(current_call_frame(s), LAMBDA f :
    Bind(access_account(s, target_address), LAMBDA t1 :
    Bind(access_account(t1.vm, f.to), LAMBDA t2 :
    Bind(gas_cost_selfdestruct(t1.was_cold,
                               IF ForkGE(fork, "SpuriousDragon") THEN is_empty(t1.info)
                               ELSE ~account_exists(s.cache, target_address),
                               t2.info.balance, fork), LAMBDA cost :
    Bind(with_frame(t2.vm, increase_consumed_gas(f, cost)), LAMBDA s1 :
    Bind(increase_account_balance(s1.cache, target_address, t2.info.balance),
         LAMBDA credited :
    Bind(IF ForkGE(fork, "Cancun")
         THEN IF f.to \in s1.accrued_substate.created_accounts
              THEN [s1 EXCEPT
                      !.cache = [decrease_account_balance(credited, f.to, t2.info.balance)
                                    EXCEPT ![f.to].balance = 0],
                      !.accrued_substate.selfdestruct_set = @ \cup {f.to}]
              ELSE [s1 EXCEPT
                      !.cache = decrease_account_balance(credited, f.to, t2.info.balance)]
         ELSE [s1 EXCEPT
                 !.cache = [credited EXCEPT ![f.to].balance = 0],
                 !.refunded_gas =
                     IF ~ForkGE(fork, "London")
                        /\ f.to \notin s1.accrued_substate.selfdestruct_set
                     THEN @ + SELFDESTRUCT_REFUND ELSE @,
                 !.accrued_substate.selfdestruct_set = @ \cup {f.to}], LAMBDA s2 :
        IF f.is_static THEN Err(s, "OpcodeNotAllowedInStaticContext")
        ELSE IF ~gas_fits(f, cost) THEN Err(t2.vm, "OutOfGas")
        ELSE Halt(IF account_exists(s2.cache, target_address) /\ is_empty(t1.info)
                  THEN [s2 EXCEPT
                          !.accrued_substate.touched_accounts = @ \cup {target_address}]
                  ELSE s2))))))))

\* ------------------------------------------------------- environment
\* gas_cost::calldatacopy, codecopy, returndatacopy: 3, 3 per word copied, and the
\* expansion (section 4.D, memory copies)
gas_cost_copy(new_memory_size, current_memory_size, size) ==
    3 + 3 * ((size + 31) \div 32)
    + memory_expansion_cost(new_memory_size, current_memory_size)

\* gas_cost::extcodecopy: the access of the address in place of the 3
gas_cost_extcodecopy(size, new_memory_size, current_memory_size, address_was_cold, f) ==
    address_access_cost(address_was_cold, f) + 3 * ((size + 31) \div 32)
    + memory_expansion_cost(new_memory_size, current_memory_size)

\* gas_cost::CALLDATALOAD; gas_cost::RETURNDATASIZE
gas_cost_calldataload == 3
gas_cost_returndatasize == 2

\* U256::from_big_endian: the number the bytes write in base 256.  The model holds
\* such a number as its digits without leading zeros (0 has none), the numbers
\* read from calldata being beyond the integers TLC computes with.
from_big_endian(bytes) ==
    LET digits == {i \in 1..Len(bytes) : bytes[i] # 0}
    IN  IF digits = {} THEN <<>>
        ELSE SubSeq(bytes, CHOOSE i \in digits : \A j \in digits : i <= j, Len(bytes))

\* U256::zero
U256_zero == <<>>

\* the loop of the copying opcodes taking the bytes from the start of the source
take_from_start(source, offset, size) ==
    [i \in 1..size |-> IF i <= Len(source) THEN source[i] ELSE 0]

\* the loop of the copying opcodes: `size` zeros overwritten by
\* source.iter().skip(offset).take(size)
skip_take(source, offset, size) ==
    [i \in 1..size |-> IF offset + i <= Len(source) THEN source[offset + i] ELSE 0]

\* VM::op_calldataload
op_calldataload(s, offset) ==
    LET f == current_call_frame(s)
        f1 == increase_consumed_gas(f, gas_cost_calldataload)
    IN  IF ~gas_fits(f, gas_cost_calldataload) THEN Err(s, "OutOfGas")
        ELSE IF offset > Len(f.calldata) THEN Continue(with_frame(s, push(f1, U256_zero)), 1)
        ELSE Continue(with_frame(s, push(f1, from_big_endian(
                                                 skip_take(f.calldata, offset, 32)))), 1)

\* VM::op_calldatacopy
op_calldatacopy(s, dest_offset, calldata_offset, size) ==
    LET f == current_call_frame(s)
        cost == gas_cost_copy(calculate_memory_size(dest_offset, size), Len(f.memory), size)
        f1 == increase_consumed_gas(f, cost)
        data == IF calldata_offset > Len(f.calldata) THEN Zeros(size)
                ELSE skip_take(f.calldata, calldata_offset, size)
    IN  IF ~gas_fits(f, cost) THEN Err(s, "OutOfGas")
        ELSE IF size = 0 THEN Continue(with_frame(s, f1), 1)
        ELSE Continue(with_frame(s, [f1 EXCEPT !.memory = try_store_data(@, dest_offset, data)]), 1)

\* VM::op_codecopy
op_codecopy(s, destination_offset, code_offset, size) ==
    LET f == current_call_frame(s)
        cost == gas_cost_copy(calculate_memory_size(destination_offset, size),
                              Len(f.memory), size)
        f1 == increase_consumed_gas(f, cost)
        data == IF code_offset < Len(f.bytecode) THEN skip_take(f.bytecode, code_offset, size)
                ELSE Zeros(size)
    IN  IF ~gas_fits(f, cost) THEN Err(s, "OutOfGas")
        ELSE IF size = 0 THEN Continue(with_frame(s, f1), 1)
        ELSE Continue(with_frame(s, [f1 EXCEPT
                                       !.memory = try_store_data(@, destination_offset, data)]), 1)

\* VM::op_extcodecopy
op_extcodecopy(s, address, dest_offset, offset, size) ==
    LET f == current_call_frame(s)
        a == access_account(s, address)
        cost == gas_cost_extcodecopy(size, calculate_memory_size(dest_offset, size),
                                     Len(f.memory), a.was_cold, fork)
        f1 == increase_consumed_gas(f, cost)
        bytecode == a.info.code
        data == IF offset < Len(bytecode) THEN skip_take(bytecode, offset, size)
                ELSE Zeros(size)
    IN  IF ~gas_fits(f, cost) THEN Err(a.vm, "OutOfGas")
        ELSE IF size = 0 THEN Continue(with_frame(a.vm, f1), 1)
        ELSE Continue(with_frame(a.vm, [f1 EXCEPT
                                          !.memory = try_store_data(@, dest_offset, data)]), 1)

\* VM::op_returndatasize
op_returndatasize(s) ==
    LET f == current_call_frame(s)
    IN  IF ~ForkGE(fork, "Byzantium") THEN Err(s, "InvalidOpcode")
        ELSE IF ~gas_fits(f, gas_cost_returndatasize) THEN Err(s, "OutOfGas")
        ELSE Continue(with_frame(s, push(increase_consumed_gas(f, gas_cost_returndatasize),
                                         Len(f.sub_return_data))), 1)

\* VM::op_returndatacopy
op_returndatacopy(s, dest_offset, returndata_offset, size) ==
    LET f == current_call_frame(s)
        cost == gas_cost_copy(calculate_memory_size(dest_offset, size), Len(f.memory), size)
        f1 == increase_consumed_gas(f, cost)
        data == skip_take(f.sub_return_data, returndata_offset, size)
    IN  IF ~ForkGE(fork, "Byzantium") THEN Err(s, "InvalidOpcode")
        ELSE IF ~gas_fits(f, cost) THEN Err(s, "OutOfGas")
        ELSE IF size = 0 /\ returndata_offset = 0 THEN Continue(with_frame(s, f1), 1)
        ELSE IF returndata_offset + size > Len(f.sub_return_data)
        THEN Err(with_frame(s, f1), "OutOfBounds")
        ELSE Continue(with_frame(s, [f1 EXCEPT
                                       !.memory = try_store_data(@, dest_offset, data)]), 1)

\* RetData
RetData(is_create, ret_offset, ret_size, should_transfer_value, to, msg_sender, value, max_gas) ==
    [is_create |-> is_create, ret_offset |-> ret_offset, ret_size |-> ret_size,
     should_transfer_value |-> should_transfer_value,
     to |-> to, msg_sender |-> msg_sender, value |-> value,
     max_message_call_gas |-> max_gas]

\* entering a frame without a StateBackup
push_no_backup(s) == s

\* the StateBackup generic_call, generic_create and execute push
push_backup(s) ==
    [s EXCEPT !.backups = Append(@, StateBackup(s.cache, s.accrued_substate,
                                                 s.refunded_gas, s.transient_storage))]

\* no depth limit
depth_limit_never_reached(new_depth) == FALSE

\* generic_call and generic_create, "Depth limit has been reached"
depth_limit_reached(new_depth) == new_depth > CALL_DEPTH_LIMIT

\* an early exit handing the reserved gas back twice
early_exit_handing_back_twice(s, f, gas_limit, word) ==
    Continue(with_frame(s, push([f EXCEPT !.gas_used = @ - 2 * gas_limit], word)), 1)

\* the early exit keeping the gas reserved for the subcall
early_exit_keeping_gas(s, f, gas_limit, word) ==
    Continue(with_frame(s, push(f, word)), 1)

\* the three early exits of generic_call and generic_create: hand the reserved gas
\* back, push `word`, continue at the next instruction
early_exit(s, f, gas_limit, word) ==
    IF f.gas_used - gas_limit < 0 THEN Err(s, "Internal")
    ELSE Continue(with_frame(s, push([f EXCEPT !.gas_used = @ - gas_limit], word)), 1)

\* a generic_call that checks the sender's balance whether or not value moves
generic_call_checking_every_balance(s, gas_limit, value, msg_sender, to, code_address, should_transfer_value, is_static, ret_offset, ret_size, bytecode, is_delegation) ==
    Bind(access_account(s, msg_sender), LAMBDA a :
    Bind([current_call_frame(a.vm) EXCEPT !.sub_return_data = <<>>], LAMBDA f :
    Bind(with_frame(a.vm, f), LAMBDA s1 :
        IF a.info.balance < value THEN early_exit(s1, f, gas_limit, 0)
        ELSE IF depth_limit_reached(f.depth + 1) THEN early_exit(s1, f, gas_limit, 0)
        ELSE IF Len(bytecode) = 0 /\ is_delegation THEN early_exit(s1, f, gas_limit, 1)
        ELSE
        Bind(IF should_transfer_value
             THEN [s1 EXCEPT !.cache = increase_account_balance(
                                           decrease_account_balance(@, msg_sender, value),
                                           to, value)]
             ELSE s1, LAMBDA s2 :
        Bind(push_backup(
                 [s2 EXCEPT
                    !.return_data = Append(@, RetData(FALSE, ret_offset, ret_size,
                                                      should_transfer_value, to,
                                                      msg_sender, value, gas_limit)),
                    !.call_frames = Append(@, CallFrame(msg_sender, to, code_address,
                                                        bytecode, value, <<>>, is_static,
                                                        gas_limit, 0, f.depth + 1, FALSE))]),
             LAMBDA s4 :
            IF is_precompile(code_address, fork)
            THEN Bind(run_execution_precompile(s4), LAMBDA pre :
                     IF pre.status = "error" THEN Err(pre.vm, "Internal")
                     ELSE Continue(pre.vm, 0))
            ELSE Continue(s4, 0))))))

\* a generic_call that opens a frame for a delegation to an account without code
generic_call_entering_empty_delegation(s, gas_limit, value, msg_sender, to, code_address, should_transfer_value, is_static, ret_offset, ret_size, bytecode, is_delegation) ==
    Bind(access_account(s, msg_sender), LAMBDA a :
    Bind([current_call_frame(a.vm) EXCEPT !.sub_return_data = <<>>], LAMBDA f :
    Bind(with_frame(a.vm, f), LAMBDA s1 :
        IF should_transfer_value /\ a.info.balance < value THEN early_exit(s1, f, gas_limit, 0)
        ELSE IF depth_limit_reached(f.depth + 1) THEN early_exit(s1, f, gas_limit, 0)
        ELSE IF FALSE THEN early_exit(s1, f, gas_limit, 1)
        ELSE
        Bind(IF should_transfer_value
             THEN [s1 EXCEPT !.cache = increase_account_balance(
                                           decrease_account_balance(@, msg_sender, value),
                                           to, value)]
             ELSE s1, LAMBDA s2 :
        Bind(push_backup(
                 [s2 EXCEPT
                    !.return_data = Append(@, RetData(FALSE, ret_offset, ret_size,
                                                      should_transfer_value, to,
                                                      msg_sender, value, gas_limit)),
                    !.call_frames = Append(@, CallFrame(msg_sender, to, code_address,
                                                        bytecode, value, <<>>, is_static,
                                                        gas_limit, 0, f.depth + 1, FALSE))]),
             LAMBDA s4 :
            IF is_precompile(code_address, fork)
            THEN Bind(run_execution_precompile(s4), LAMBDA pre :
                     IF pre.status = "error" THEN Err(pre.vm, "Internal")
                     ELSE Continue(pre.vm, 0))
            ELSE Continue(s4, 0))))))

\* VM::generic_call
generic_call(s, gas_limit, value, msg_sender, to, code_address, should_transfer_value, is_static, ret_offset, ret_size, bytecode, is_delegation) ==
    Bind(access_account(s, msg_sender), LAMBDA a :
    Bind([current_call_frame(a.vm) EXCEPT !.sub_return_data = <<>>], LAMBDA f :
    Bind(with_frame(a.vm, f), LAMBDA s1 :
        IF should_transfer_value /\ a.info.balance < value THEN early_exit(s1, f, gas_limit, 0)
        ELSE IF depth_limit_reached(f.depth + 1) THEN early_exit(s1, f, gas_limit, 0)
        ELSE IF Len(bytecode) = 0 /\ is_delegation THEN early_exit(s1, f, gas_limit, 1)
        ELSE
        Bind(IF should_transfer_value
             THEN [s1 EXCEPT !.cache = increase_account_balance(
                                           decrease_account_balance(@, msg_sender, value),
                                           to, value)]
             ELSE s1, LAMBDA s2 :
        Bind(push_backup(
                 [s2 EXCEPT
                    !.return_data = Append(@, RetData(FALSE, ret_offset, ret_size,
                                                      should_transfer_value, to,
                                                      msg_sender, value, gas_limit)),
                    !.call_frames = Append(@, CallFrame(msg_sender, to, code_address,
                                                        bytecode, value, <<>>, is_static,
                                                        gas_limit, 0, f.depth + 1, FALSE))]),
             LAMBDA s4 :
            IF is_precompile(code_address, fork)
            THEN Bind(run_execution_precompile(s4), LAMBDA pre :
                     IF pre.status = "error" THEN Err(pre.vm, "Internal")
                     ELSE Continue(pre.vm, 0))
            ELSE Continue(s4, 0))))))

\* the part the four CALL opcodes share before generic_call: access, delegation,
\* gas.  `value_for_cost` is the value the gas formula sees.
call_charges(s, gas, code_address, value_for_cost, counts_empty, new_memory_size) ==
    Bind(current_call_frame(s), LAMBDA f :
    Bind(access_account(s, code_address), LAMBDA a :
    Bind(eip7702_get_code(a.vm, code_address), LAMBDA d :
    Bind(gas_cost_call(new_memory_size, Len(f.memory), a.was_cold, counts_empty /\ is_empty(a.info), value_for_cost,
                       gas, f.gas_limit - f.gas_used - d.gas, fork), LAMBDA c :
        [vm |-> with_frame(d.vm, increase_consumed_gas(f, c.cost + d.gas)),
         error |-> IF f.gas_limit - f.gas_used - d.gas < 0 THEN "Internal"
                   ELSE IF ~c.ok \/ ~gas_fits(f, c.cost + d.gas) THEN "OutOfGas"
                   ELSE NoError,
         failed_vm |-> d.vm,
         gas_limit |-> c.gas_limit, code_address |-> d.code_address,
         bytecode |-> d.bytecode, is_delegation |-> d.is_delegation]))))

\* VM::op_call
op_call(s, gas, callee, value_to_transfer, return_data_start_offset, return_data_size) ==
    Bind(current_call_frame(s), LAMBDA f :
    Bind(call_charges(s, gas, callee, value_to_transfer, TRUE,
                      calculate_memory_size(return_data_start_offset, return_data_size)),
         LAMBDA c :
        IF f.is_static /\ value_to_transfer # 0
        THEN Err(s, "OpcodeNotAllowedInStaticContext")
        ELSE IF c.error # NoError THEN Err(c.failed_vm, c.error)
        ELSE generic_call(c.vm, c.gas_limit, value_to_transfer, f.to, callee,
                          c.code_address, TRUE, f.is_static, return_data_start_offset,
                          return_data_size, c.bytecode, c.is_delegation)))

\* an op_callcode whose frame is not static in a static frame
op_callcode_leaving_static(s, gas, code_address, value_to_transfer) ==
    Bind(current_call_frame(s), LAMBDA f :
    Bind(call_charges(s, gas, code_address, value_to_transfer, FALSE, 0), LAMBDA c :
        IF c.error # NoError THEN Err(c.failed_vm, c.error)
        ELSE generic_call(c.vm, c.gas_limit, value_to_transfer, f.to, f.to,
                          c.code_address, TRUE, FALSE, 0, 0, c.bytecode,
                          c.is_delegation)))

\* VM::op_callcode
op_callcode(s, gas, code_address, value_to_transfer) ==
    Bind(current_call_frame(s), LAMBDA f :
    Bind(call_charges(s, gas, code_address, value_to_transfer, FALSE, 0), LAMBDA c :
        IF c.error # NoError THEN Err(c.failed_vm, c.error)
        ELSE generic_call(c.vm, c.gas_limit, value_to_transfer, f.to, f.to,
                          c.code_address, TRUE, f.is_static, 0, 0, c.bytecode,
                          c.is_delegation)))

\* op_delegatecall with the context of a CALL of no value: the caller is the
\* current contract
op_delegatecall_as_call(s, gas, code_address) ==
    Bind(current_call_frame(s), LAMBDA f :
    Bind(call_charges(s, gas, code_address, 0, FALSE, 0), LAMBDA c :
        IF ~ForkGE(fork, "Homestead") THEN Err(s, "InvalidOpcode")
        ELSE IF c.error # NoError THEN Err(c.failed_vm, c.error)
        ELSE generic_call(c.vm, c.gas_limit, 0, f.to, f.to,
                          c.code_address, FALSE, f.is_static, 0, 0, c.bytecode,
                          c.is_delegation)))

\* VM::op_delegatecall
op_delegatecall(s, gas, code_address) ==
    Bind(current_call_frame(s), LAMBDA f :
    Bind(call_charges(s, gas, code_address, 0, FALSE, 0), LAMBDA c :
        IF ~ForkGE(fork, "Homestead") THEN Err(s, "InvalidOpcode")
        ELSE IF c.error # NoError THEN Err(c.failed_vm, c.error)
        ELSE generic_call(c.vm, c.gas_limit, f.msg_value, f.msg_sender, f.to,
                          c.code_address, FALSE, f.is_static, 0, 0, c.bytecode,
                          c.is_delegation)))

\* VM::op_staticcall
op_staticcall(s, gas, code_address) ==
    Bind(current_call_frame(s), LAMBDA f :
    Bind(call_charges(s, gas, code_address, 0, FALSE, 0), LAMBDA c :
        IF ~ForkGE(fork, "Byzantium") THEN Err(s, "InvalidOpcode")
        ELSE IF c.error # NoError THEN Err(c.failed_vm, c.error)
        ELSE generic_call(c.vm, c.gas_limit, 0, f.to, code_address,
                          code_address, TRUE, TRUE, 0, 0, c.bytecode,
                          c.is_delegation)))

\* constants::INIT_CODE_MAX_SIZE
INIT_CODE_MAX_SIZE == 49152
\* u64::MAX, the nonce that cannot be incremented; the model counts nonces on 31
\* bits, the widest TLC computes with
U64_MAX == 2147483647

\* generic_create without the check of the new address: an account that has code
\* or a nonce is overwritten
generic_create_overwriting(s, value_in_wei_to_send, code, salt) ==
    Bind(max_message_call_gas(current_call_frame(s)), LAMBDA max_gas :
    Bind([increase_consumed_gas(current_call_frame(s), max_gas)
             EXCEPT !.sub_return_data = <<>>], LAMBDA f :
    Bind(access_account(with_frame(s, f), f.to), LAMBDA a :
    Bind(calculate_create_address(f.to, a.info.nonce), LAMBDA new_address :
    Bind([a.vm EXCEPT !.accrued_substate.touched_accounts = @ \cup {new_address}],
         LAMBDA s1 :
        IF current_call_frame(s).is_static THEN Err(s, "OpcodeNotAllowedInStaticContext")
        ELSE IF Len(code) > INIT_CODE_MAX_SIZE /\ ForkGE(fork, "Shanghai")
        THEN Err(s, "OutOfGas")
        ELSE IF \/ a.info.balance < value_in_wei_to_send
                \/ depth_limit_reached(f.depth + 1)
                \/ a.info.nonce = U64_MAX
        THEN early_exit(s1, f, max_gas, 0)
        ELSE
        Bind(get_account(s1.cache, new_address), LAMBDA new_account :
        Bind([s1 EXCEPT !.cache = load_account(@, new_address)], LAMBDA s2 :
            IF FALSE
            THEN Continue(with_frame(
                              [s2 EXCEPT !.cache = increment_account_nonce(@, f.to)],
                              push(f, 0)), 1)
            ELSE
            Continue(push_backup(
                [s2 EXCEPT
                   !.cache = decrease_account_balance(
                                 increment_account_nonce(
                                     insert_account(
                                         @, new_address,
                                         Account(value_in_wei_to_send + new_account.balance,
                                                 <<>>,
                                                 IF ~ForkGE(fork, "SpuriousDragon")
                                                 THEN 0 ELSE 1,
                                                 EmptyStorage)),
                                     f.to),
                                 f.to, value_in_wei_to_send),
                   !.call_frames = Append(@, CallFrame(f.to, new_address, new_address, code,
                                                       value_in_wei_to_send, <<>>, FALSE,
                                                       max_gas, 0, f.depth + 1, TRUE)),
                   !.accrued_substate.created_accounts = @ \cup {new_address},
                   !.return_data = Append(@, RetData(TRUE, 0, 0, TRUE, new_address, f.to,
                                                     value_in_wei_to_send, max_gas))]),
                0))))))))

\* a generic_create whose new account holds the value sent and nothing else
generic_create_dropping_held_balance(s, value_in_wei_to_send, code, salt) ==
    Bind(max_message_call_gas(current_call_frame(s)), LAMBDA max_gas :
    Bind([increase_consumed_gas(current_call_frame(s), max_gas)
             EXCEPT !.sub_return_data = <<>>], LAMBDA f :
    Bind(access_account(with_frame(s, f), f.to), LAMBDA a :
    Bind(calculate_create_address(f.to, a.info.nonce), LAMBDA new_address :
    Bind([a.vm EXCEPT !.accrued_substate.touched_accounts = @ \cup {new_address}],
         LAMBDA s1 :
        IF current_call_frame(s).is_static THEN Err(s, "OpcodeNotAllowedInStaticContext")
        ELSE IF Len(code) > INIT_CODE_MAX_SIZE /\ ForkGE(fork, "Shanghai")
        THEN Err(s, "OutOfGas")
        ELSE IF \/ a.info.balance < value_in_wei_to_send
                \/ depth_limit_reached(f.depth + 1)
                \/ a.info.nonce = U64_MAX
        THEN early_exit(s1, f, max_gas, 0)
        ELSE
        Bind(get_account(s1.cache, new_address), LAMBDA new_account :
        Bind([s1 EXCEPT !.cache = load_account(@, new_address)], LAMBDA s2 :
            IF has_code_or_nonce(new_account)
            THEN Continue(with_frame(
                              [s2 EXCEPT !.cache = increment_account_nonce(@, f.to)],
                              push(f, 0)), 1)
            ELSE
            Continue(push_backup(
                [s2 EXCEPT
                   !.cache = decrease_account_balance(
                                 increment_account_nonce(
                                     insert_account(
                                         @, new_address,
                                         Account(value_in_wei_to_send,
                                                 <<>>,
                                                 IF ~ForkGE(fork, "SpuriousDragon")
                                                 THEN 0 ELSE 1,
                                                 EmptyStorage)),
                                     f.to),
                                 f.to, value_in_wei_to_send),
                   !.call_frames = Append(@, CallFrame(f.to, new_address, new_address, code,
                                                       value_in_wei_to_send, <<>>, FALSE,
                                                       max_gas, 0, f.depth + 1, TRUE)),
                   !.accrued_substate.created_accounts = @ \cup {new_address},
                   !.return_data = Append(@, RetData(TRUE, 0, 0, TRUE, new_address, f.to,
                                                     value_in_wei_to_send, max_gas))]),
                0))))))))

\* VM::generic_create
generic_create(s, value_in_wei_to_send, code, salt) ==
    Bind(max_message_call_gas(current_call_frame(s)), LAMBDA max_gas :
    Bind([increase_consumed_gas(current_call_frame(s), max_gas)
             EXCEPT !.sub_return_data = <<>>], LAMBDA f :
    Bind(access_account(with_frame(s, f), f.to), LAMBDA a :
    Bind(calculate_create_address(f.to, a.info.nonce), LAMBDA new_address :
    Bind([a.vm EXCEPT !.accrued_substate.touched_accounts = @ \cup {new_address}],
         LAMBDA s1 :
        IF current_call_frame(s).is_static THEN Err(s, "OpcodeNotAllowedInStaticContext")
        ELSE IF Len(code) > INIT_CODE_MAX_SIZE /\ ForkGE(fork, "Shanghai")
        THEN Err(s, "OutOfGas")
        ELSE IF \/ a.info.balance < value_in_wei_to_send
                \/ depth_limit_reached(f.depth + 1)
                \/ a.info.nonce = U64_MAX
        THEN early_exit(s1, f, max_gas, 0)
        ELSE
        Bind(get_account(s1.cache, new_address), LAMBDA new_account :
        Bind([s1 EXCEPT !.cache = load_account(@, new_address)], LAMBDA s2 :
            IF has_code_or_nonce(new_account)
            THEN Continue(with_frame(
                              [s2 EXCEPT !.cache = increment_account_nonce(@, f.to)],
                              push(f, 0)), 1)
            ELSE
            Continue(push_backup(
                [s2 EXCEPT
                   !.cache = decrease_account_balance(
                                 increment_account_nonce(
                                     insert_account(
                                         @, new_address,
                                         Account(value_in_wei_to_send + new_account.balance,
                                                 <<>>,
                                                 IF ~ForkGE(fork, "SpuriousDragon")
                                                 THEN 0 ELSE 1,
                                                 EmptyStorage)),
                                     f.to),
                                 f.to, value_in_wei_to_send),
                   !.call_frames = Append(@, CallFrame(f.to, new_address, new_address, code,
                                                       value_in_wei_to_send, <<>>, FALSE,
                                                       max_gas, 0, f.depth + 1, TRUE)),
                   !.accrued_substate.created_accounts = @ \cup {new_address},
                   !.return_data = Append(@, RetData(TRUE, 0, 0, TRUE, new_address, f.to,
                                                     value_in_wei_to_send, max_gas))]),
                0))))))))

\* gas_cost::create / create_2: 32000, plus 2 gas per init-code word from Shanghai,
\* plus 6 gas per word hashed by CREATE2
gas_cost_create(code, is_create2, f) ==
    LET words == (Len(code) + 31) \div 32
    IN  CREATE_BASE_COST + (IF ForkGE(f, "Shanghai") THEN 2 * words ELSE 0)
        + (IF is_create2 THEN 6 * words ELSE 0)

\* VM::op_create
op_create(s, value_in_wei_to_send, code) ==
    LET f == current_call_frame(s)
        cost == gas_cost_create(code, FALSE, fork)
    IN  IF ~gas_fits(f, cost) THEN Err(s, "OutOfGas")
        ELSE generic_create(with_frame(s, increase_consumed_gas(f, cost)),
                            value_in_wei_to_send, code, FALSE)

\* VM::op_create2
op_create2(s, value_in_wei_to_send, code) ==
    LET f == current_call_frame(s)
        cost == gas_cost_create(code, TRUE, fork)
    IN  IF ~ForkGE(fork, "Constantinople") THEN Err(s, "InvalidOpcode")
        ELSE IF ~gas_fits(f, cost) THEN Err(s, "OutOfGas")
        ELSE generic_create(with_frame(s, increase_consumed_gas(f, cost)),
                            value_in_wei_to_send, code, TRUE)

\* ------------------------------------------------------------ construction
\* env.origin, env.coinbase, env.gas_limit and the transaction are inputs
Coinbase == Addr.B

StoredAccount(exists, balance, nonce, code, slot) ==
    [exists |-> exists, balance |-> balance, nonce |-> nonce, code |-> code,
     storage |-> [k \in Keys |-> slot]]

\* the world states transactions are run against; they differ in what the address
\* of new contracts holds: nothing, or an account with a balance and a nonce
Store(occupied) ==
    [a \in Addresses |->
        CASE a = Addr.origin -> StoredAccount(TRUE, 3, 0, <<>>, 0)
          [] a = Addr.A -> StoredAccount(TRUE, 1, 1, SomeCode, 0)
          [] a = Addr.B -> StoredAccount(TRUE, 0, 1, SomeCode, 1)
          [] a = Addr.new -> IF occupied THEN StoredAccount(TRUE, 1, 1, <<>>, 0)
                             ELSE StoredAccount(FALSE, 0, 0, <<>>, 0)
          [] OTHER -> StoredAccount(FALSE, 0, 0, <<>>, 0)]

\* db.cache as earlier transactions left it: empty, or holding A with a slot that
\* the previous transaction wrote (original 0, current 1)
PreCache(written) ==
    [a \in Addresses |->
        IF written /\ a = Addr.A
        THEN Account(1, SomeCode, 1,
                     [k \in Keys |-> [original_value |-> 0, current_value |-> 1]])
        ELSE NoAccount]

\* the transactions run, and what they are run against: the fork, the kind of
\* transaction and its recipient, value and gas limit, whether the address of new
\* contracts is occupied, whether the cache holds A's written slot
Environment(f, kind, to, value, gas_limit, occupied, written) ==
    [fork |-> f, kind |-> kind, to |-> to, value |-> value, gas_limit |-> gas_limit,
     occupied |-> occupied, written |-> written]

Environments ==
    {Environment("Cancun", "Call", Addr.A, 0, 200000, FALSE, TRUE),
     Environment("Istanbul", "Call", Addr.A, 0, 200000, TRUE, FALSE),
     Environment("Cancun", "Create", Addr.new, 0, 200000, FALSE, FALSE),
     Environment("Istanbul", "Create", Addr.new, 0, 200000, TRUE, FALSE),
     Environment("Cancun", "Call", Addr.precompile, 0, 200000, FALSE, FALSE),
     Environment("Istanbul", "Call", Addr.precompile, 0, 22000, FALSE, FALSE),
     Environment("Istanbul", "Call", Addr.precompile, 0, 2000, FALSE, FALSE)}

\* VM::new leaving the cached slots' original values as they come
keep_original_values(c) == c

\* VM::new, "the current value of the storage slots are actually the original values"
reset_original_values(c) ==
    [a \in Addresses |->
        IF c[a] = NoAccount THEN NoAccount
        ELSE [c[a] EXCEPT !.storage =
                 [k \in Keys |->
                     IF c[a].storage[k] = NoSlot THEN NoSlot
                     ELSE [original_value |-> c[a].storage[k].current_value,
                           current_value |-> c[a].storage[k].current_value]]]]

\* VM::new, default_touched_accounts
default_touched_accounts(f) ==
    {Addr.origin}
    \cup (IF ForkGE(f, "Shanghai") THEN {Coinbase} ELSE {})
    \cup {a \in Addresses : is_precompile(a, f)}

\* VM::new, the loop over tx.access_list(): every listed address is touched, and
\* default_touched_storage_slots.insert(address, warm_slots) leaves an address with
\* the keys of the last entry that lists it
access_list_accounts(list) == {list[i][1] : i \in DOMAIN list}

default_touched_storage_slots(list) ==
    [a \in Addresses |->
        LET entries == {i \in DOMAIN list : list[i][1] = a}
            last == CHOOSE i \in entries : \A j \in entries : j <= i
        IN  IF entries = {} THEN {}
            ELSE {list[last][2][j] : j \in DOMAIN list[last][2]}]

Substate(selfdestruct_set, touched_accounts, touched_storage_slots, created_accounts) ==
    [selfdestruct_set |-> selfdestruct_set, touched_accounts |-> touched_accounts,
     touched_storage_slots |-> touched_storage_slots, created_accounts |-> created_accounts]

Snap(s) ==
    [cache |-> s.cache, substate |-> s.accrued_substate,
     refunded_gas |-> s.refunded_gas, transient_storage |-> s.transient_storage]

\* ----------------------------------------------------------------- history
\* `hist` records what the last step did and, for every open frame, the state
\* before the opcode that entered it and the state at its entry; it is read by
\* the properties only.
\*   op, args, err  the last opcode, its operands, the error it raised
\*   popped         the report of the frame the last step ended
\*   exited         the frame the last step ended: who entered it, whether the state
\*                  it ended in differed from the state at its entry, the accounts
\*                  touched when it ended, whether a frame nested in it had succeeded
\*   sstore         the last step, if it was an SSTORE that went through: the slot
\*                  and the refund counter before it, and the SSTORE before it, if
\*                  that was the step before
\*   open           per open frame: the opcode that entered it, the state before
\*                  that opcode, the state at entry, whether a nested frame succeeded
\*   start          the value of every slot at the start of the transaction
\*   finalized      how often handle_create_non_empty_account has called
\*                  finalize_execution
NoExit == [by |-> "none"]
NoSstore == [address |-> "none"]

Exit(opened, frame, ended) ==
    [by |-> opened.by, depth |-> frame.depth, msg_sender |-> frame.msg_sender,
     to |-> frame.to, msg_value |-> frame.msg_value, gas_limit |-> frame.gas_limit,
     is_create |-> frame.is_create, dirty |-> ended # opened.entry,
     touched |-> ended.substate.touched_accounts, nested |-> opened.nested,
     destroyed |-> frame.to \in opened.entry.substate.selfdestruct_set]

Opened(by, pre, entry) == [by |-> by, pre |-> pre, entry |-> entry, nested |-> FALSE]

Closed(open, succeeded) ==
    LET rest == SubSeq(open, 1, Len(open) - 1)
    IN  IF Len(rest) > 0 /\ succeeded THEN [rest EXCEPT ![Len(rest)].nested = TRUE]
        ELSE rest

Written(frame, args, slot, refund, before) ==
    [address |-> frame.to, key |-> args[1], value |-> args[2], slot |-> slot,
     refunded_gas |-> refund,
     prev |-> IF before = NoSstore THEN NoSstore
              ELSE [address |-> before.address, key |-> before.key,
                    value |-> before.value, slot |-> before.slot,
                    refunded_gas |-> before.refunded_gas]]

NoHistory(start) ==
    [op |-> "new", args |-> <<>>, err |-> NoError, popped |-> NoReport, exited |-> NoExit,
     sstore |-> NoSstore, open |-> <<>>, start |-> start, finalized |-> 0]

\* the slot values a transaction starts with: the cached current value, else the
\* stored one
StartValues(pre_cache, st) ==
    [a \in Addresses |-> [k \in Keys |->
        IF pre_cache[a] # NoAccount /\ pre_cache[a].storage[k] # NoSlot
        THEN pre_cache[a].storage[k].current_value
        ELSE IF st[a].exists THEN st[a].storage[k] ELSE 0]]

\* VM::new
Init ==
    /\ \E e \in Environments :
          LET c0 == reset_original_values(PreCache(e.written))
          IN  /\ fork = e.fork
              /\ tx_kind = e.kind
              /\ store = Store(e.occupied)
              /\ hist = NoHistory(StartValues(PreCache(e.written), Store(e.occupied)))
              /\ IF e.kind = "Call"
                 THEN /\ cache = load_account(c0, e.to)
                      /\ accrued_substate =
                           Substate({}, default_touched_accounts(e.fork) \cup {e.to},
                                    [a \in Addresses |-> {}], {})
                      /\ call_frames =
                           << CallFrame(Addr.origin, e.to, e.to,
                                        get_account(c0, e.to).code, e.value, <<>>,
                                        FALSE, e.gas_limit, 0, 0, FALSE) >>
                 ELSE /\ cache = load_account(c0, Addr.origin)
                      /\ accrued_substate =
                           Substate({}, default_touched_accounts(e.fork) \cup {e.to},
                                    [a \in Addresses |-> {}], {e.to})
                      /\ call_frames =
                           << CallFrame(Addr.origin, e.to, e.to, <<>>, e.value, SomeCode,
                                        FALSE, e.gas_limit, 0, 0, FALSE) >>
    /\ refunded_gas = 0
    /\ transient_storage = [x \in Addresses \X Keys |-> NoSlot]
    /\ return_data = <<>>
    /\ backups = <<>>
    /\ phase = "new"
    /\ report = NoReport
    /\ steps = 0
    /\ guest = NoGuest
    /\ cache_backup = cache
    /\ access_list = <<>>

\* the calldata tokens of the intrinsic gas (section 4.J): 4 per zero byte, 16 per
\* other byte (68 before Istanbul)
calldata_cost(calldata, f) ==
    LET zero_bytes == Cardinality({i \in 1..Len(calldata) : calldata[i] = 0})
    IN  4 * zero_bytes
        + (IF ForkGE(f, "Istanbul") THEN 16 ELSE 68) * (Len(calldata) - zero_bytes)

\* ------------------------------------------------------------------ execute
\* DefaultHook::prepare_execution (outside src/; section 4.J), with a gas price of 0:
\* the intrinsic gas is charged to the frame, the sender's nonce is bumped, the
\* value leaves the sender and, for a call, reaches the recipient; a create's
\* calldata becomes the bytecode.  ok = FALSE is a validation error.
prepare_execution(s, frame) ==
    LET intrinsic == TX_BASE_COST + (IF tx_kind = "Create" THEN CREATE_BASE_COST ELSE 0)
                     + calldata_cost(frame.calldata, fork)
        sender == get_account(s.cache, Addr.origin)
        c1 == decrease_account_balance(increment_account_nonce(s.cache, Addr.origin),
                                       Addr.origin, frame.msg_value)
        c2 == IF tx_kind = "Call" THEN increase_account_balance(c1, frame.to, frame.msg_value)
              ELSE c1
        f1 == increase_consumed_gas(frame, intrinsic)
    IN  [ok |-> gas_fits(frame, intrinsic) /\ sender.balance >= frame.msg_value,
         vm |-> [s EXCEPT !.cache = c2],
         frame |-> IF tx_kind = "Create"
                   THEN [f1 EXCEPT !.bytecode = frame.calldata, !.calldata = <<>>]
                   ELSE f1]

\* DefaultHook::finalize_execution (outside src/; section 4.J), with a gas price of
\* 0: the refund is capped, the origin and the coinbase receive 0 wei, the
\* self-destructed accounts and, from Spurious Dragon, the touched accounts that
\* are empty read as the empty account, the transient storage is cleared
finalize_execution(s, execution_report) ==
    LET cap == execution_report.gas_used \div (IF ForkGE(fork, "London") THEN 5 ELSE 2)
        paid == increase_account_balance(
                    increase_account_balance(s.cache, Addr.origin, 0), Coinbase, 0)
        deleted == s.accrued_substate.selfdestruct_set
                   \cup (IF ForkGE(fork, "SpuriousDragon")
                         THEN {a \in s.accrued_substate.touched_accounts :
                                  is_empty(get_account(paid, a))}
                         ELSE {})
    IN  [vm |-> [s EXCEPT !.cache = [a \in Addresses |->
                                       IF a \in deleted
                                       THEN Account(0, <<>>, 0, EmptyStorage)
                                       ELSE paid[a]],
                          !.transient_storage = [x \in Addresses \X Keys |-> NoSlot]],
         report |-> [execution_report EXCEPT !.gas_refunded = Min(s.refunded_gas, cap)]]

\* a handle_create_non_empty_account that returns its report as it builds it
handle_create_non_empty_account_without_finalizing(s) ==
    [vm |-> s,
     report |-> ExecutionReport("Revert", "AddressAlreadyOccupied",
                                s.call_frames[1].gas_limit, 0, <<>>),
     finalized |-> 0]

\* VM::handle_create_non_empty_account; `finalized` counts its calls of
\* finalize_execution
handle_create_non_empty_account(s) ==
    LET r == finalize_execution(s, ExecutionReport("Revert", "AddressAlreadyOccupied",
                                                   s.call_frames[1].gas_limit, 0, <<>>))
    IN  [vm |-> r.vm, report |-> r.report, finalized |-> 1]

\* VM::execute for a create whose address is occupied: the state handed to
\* handle_create_non_empty_account
Occupied(p) ==
    [p.vm EXCEPT !.cache = load_account(@, p.frame.to), !.call_frames = <<p.frame>>]

\* VM::execute, up to the call of run_execution or, for an occupied address, to its
\* return
Executed(p) ==
    LET new_contract_address == p.frame.to
        new_account == get_account(p.vm.cache, new_contract_address)
        loaded == [p.vm EXCEPT !.cache = load_account(@, new_contract_address)]
        created_contract ==
            Account(new_account.balance + p.frame.msg_value, <<>>,
                    IF ~ForkGE(fork, "SpuriousDragon") THEN 0 ELSE 1, EmptyStorage)
        s1 == IF tx_kind = "Create"
              THEN [loaded EXCEPT !.cache = insert_account(@, new_contract_address,
                                                           created_contract)]
              ELSE p.vm
    IN  IF ~p.ok
        THEN \* prepare_execution failed: the cache is put back, execute returns Err
             /\ phase' = "error"
             /\ call_frames' = <<>>
             /\ UNCHANGED <<cache, accrued_substate, refunded_gas, transient_storage,
                            return_data, backups, report>>
        ELSE IF tx_kind = "Create" /\ has_code_or_nonce(new_account)
        THEN /\ phase' = "returned"
             /\ call_frames' = handle_create_non_empty_account(Occupied(p)).vm.call_frames
             /\ cache' = handle_create_non_empty_account(Occupied(p)).vm.cache
             /\ transient_storage' =
                    handle_create_non_empty_account(Occupied(p)).vm.transient_storage
             /\ report' = handle_create_non_empty_account(Occupied(p)).report
             /\ UNCHANGED <<accrued_substate, refunded_gas, return_data, backups>>
        ELSE /\ phase' = "running"
             /\ call_frames' = <<p.frame>>
             /\ cache' = s1.cache
             /\ backups' = push_backup([s1 EXCEPT !.call_frames = <<p.frame>>]).backups
             /\ UNCHANGED <<accrued_substate, refunded_gas, transient_storage,
                            return_data, report>>

Execute ==
    /\ phase = "new"
    /\ Executed(prepare_execution([VM EXCEPT !.call_frames = <<>>], current_call_frame(VM)))
    /\ hist' = [hist EXCEPT !.op = "execute",
                            !.finalized =
                                IF phase' = "returned"
                                THEN handle_create_non_empty_account(
                                         Occupied(prepare_execution(
                                             [VM EXCEPT !.call_frames = <<>>],
                                             current_call_frame(VM)))).finalized
                                ELSE @,
                            !.open = IF phase' = "running"
                                     THEN <<Opened("execute", Snap(VM),
                                                   [Snap(VM) EXCEPT !.cache = cache'])>>
                                     ELSE <<>>]
    /\ cache_backup' = cache
    /\ UNCHANGED <<guest, fork, tx_kind, access_list, store, steps>>

\* ------------------------------------------------------- the interpreter loop
\* the effect of one turn of run_execution's loop, `r` being what the opcode did
Turn(op, args, r, t, counted) ==
    LET f == current_call_frame(VM)
        before == Len(call_frames)
        leaves == r.res # "Continue"
    IN  /\ call_frames' = t.vm.call_frames
        /\ cache' = t.vm.cache
        /\ accrued_substate' = t.vm.accrued_substate
        /\ refunded_gas' = t.vm.refunded_gas
        /\ transient_storage' = t.vm.transient_storage
        /\ return_data' = t.vm.return_data
        /\ backups' = t.vm.backups
        /\ phase' = t.status
        /\ report' = IF t.status = "returned" THEN t.report ELSE report
        /\ steps' = IF counted THEN steps + 1 ELSE steps
        /\ hist' = [hist EXCEPT
                      !.op = op, !.args = args, !.err = r.err,
                      !.popped = IF leaves THEN t.report ELSE NoReport,
                      !.exited = IF leaves THEN Exit(hist.open[before], f, Snap(r.vm))
                                 ELSE NoExit,
                      !.sstore = IF op = "SSTORE" /\ ~leaves
                                 THEN Written(f, args,
                                              access_storage_slot(VM, f.to, args[1]).slot,
                                              refunded_gas, hist.sstore)
                                 ELSE NoSstore,
                      !.open = IF leaves THEN Closed(@, t.report.result = "Success")
                               ELSE IF Len(t.vm.call_frames) > before
                               THEN Append(@, Opened(op, Snap(VM), Snap(t.vm)))
                               ELSE @]
        /\ UNCHANGED <<guest, fork, tx_kind, access_list, store, cache_backup>>

Apply(op, args, r, counted) == Turn(op, args, r, run_execution_turn(r), counted)

\* the loop runs: the current frame is not a precompile's
InLoop == phase = "running" /\ ~is_precompile(current_call_frame(VM).code_address, fork)

\* CallFrame::next_opcode yields STOP past the end of the bytecode; a frame with
\* bytecode runs any opcode
HasCode == Len(current_call_frame(VM).bytecode) > 0
MayStep == InLoop /\ HasCode /\ steps < MaxSteps

\* run_execution entered with a precompile as the transaction's recipient
PrecompileTurn(t) ==
    /\ call_frames' = t.vm.call_frames
    /\ cache' = t.vm.cache
    /\ accrued_substate' = t.vm.accrued_substate
    /\ refunded_gas' = t.vm.refunded_gas
    /\ transient_storage' = t.vm.transient_storage
    /\ return_data' = t.vm.return_data
    /\ backups' = t.vm.backups
    /\ phase' = t.status
    /\ report' = t.report
    /\ hist' = [hist EXCEPT !.op = "precompile", !.err = t.report.error,
                            !.popped = t.report,
                            !.exited = Exit(hist.open[1], current_call_frame(VM), Snap(VM)),
                            !.open = <<>>]
    /\ UNCHANGED <<guest, fork, tx_kind, access_list, store, steps, cache_backup>>

RunPrecompile ==
    /\ phase = "running"
    /\ is_precompile(current_call_frame(VM).code_address, fork)
    /\ PrecompileTurn(run_execution_precompile(VM))

Stop == InLoop /\ Apply("STOP", <<>>, op_stop(VM), FALSE)

Return == InLoop /\ HasCode /\ \E data \in Payloads : Apply("RETURN", <<data>>, op_return(VM, data), FALSE)

Revert == InLoop /\ HasCode /\ \E data \in Payloads : Apply("REVERT", <<data>>, op_revert(VM, data), FALSE)

Invalid == InLoop /\ HasCode /\ Apply("INVALID", <<>>, op_invalid(VM), FALSE)

Selfdestruct ==
    InLoop /\ HasCode /\ \E target \in SelfdestructTargets :
        Apply("SELFDESTRUCT", <<target>>, op_selfdestruct(VM, target), FALSE)

Tload == MayStep /\ \E key \in Keys : Apply("TLOAD", <<key>>, op_tload(VM, key), TRUE)

Tstore ==
    MayStep /\ \E key \in Keys, value \in TransientValues :
        Apply("TSTORE", <<key, value>>, op_tstore(VM, key, value), TRUE)

Sload == MayStep /\ \E key \in Keys : Apply("SLOAD", <<key>>, op_sload(VM, key), TRUE)

Sstore ==
    MayStep /\ \E key \in Keys, value \in Values :
        Apply("SSTORE", <<key, value>>, op_sstore(VM, key, value), TRUE)

Call ==
    MayStep /\ \E a \in CallArgs : Apply("CALL", a, op_call(VM, a[1], a[2], a[3], 0, 0), TRUE)

Callcode ==
    MayStep /\ \E a \in CallcodeArgs :
        Apply("CALLCODE", a, op_callcode(VM, a[1], a[2], a[3]), TRUE)

Delegatecall ==
    MayStep /\ \E a \in DelegatecallArgs :
        Apply("DELEGATECALL", a, op_delegatecall(VM, a[1], a[2]), TRUE)

Staticcall ==
    MayStep /\ \E a \in StaticcallArgs :
        Apply("STATICCALL", a, op_staticcall(VM, a[1], a[2]), TRUE)

\* the modelled programs create from the externally owned and the stored contracts'
\* frames (the address of a new contract is a hash of its deployer's)
Create ==
    /\ MayStep /\ current_call_frame(VM).to # Addr.new
    /\ \E a \in CreateArgs : Apply("CREATE", a, op_create(VM, a[1], a[2]), TRUE)

Create2 ==
    /\ MayStep /\ current_call_frame(VM).to # Addr.new
    /\ \E a \in Create2Args : Apply("CREATE2", a, op_create2(VM, a[1], a[2]), TRUE)

Next ==
    \/ Execute
    \/ RunPrecompile
    \/ Stop
    \/ Return
    \/ Revert
    \/ Invalid
    \/ Selfdestruct
    \/ Tload
    \/ Tstore
    \/ Sload
    \/ Sstore
    \/ Call
    \/ Callcode
    \/ Delegatecall
    \/ Staticcall
    \/ Create
    \/ Create2

Spec == Init /\ [][Next]_vars

\* ------------------------------------------------------ the deepest call stack
\* A contract that calls itself: the stack 1023 nested CALLs of A to A (value 1)
\* leave, the frame of depth 1023 about to run its first opcode.  Such a CALL
\* changes neither the cache nor the substate (A is cached and warm from the
\* start, the value goes from A to A), so every frame, RetData and StateBackup
\* below is the one generic_call pushes, with the depth counted up.  The gas
\* figures are scaled down: each frame keeps 200 gas more than it spends on its
\* CALL, where the 63/64 rule of a real chain of that depth needs gas limits
\* beyond the model's integers.
DeepGasLimit(depth) == 100000 + (CALL_DEPTH_LIMIT - 1 - depth) * 7000

\* what the CALL of a frame of the chain costs it: the warm access, the value, and
\* the gas forwarded (the next frame's limit less the stipend)
DeepCallCost(depth) ==
    WARM_ADDRESS_ACCESS_COST + CALL_POSITIVE_VALUE
    + DeepGasLimit(depth + 1) - CALL_POSITIVE_VALUE_STIPEND

DeepEnvironment ==
    Environment("Cancun", "Call", Addr.A, 0, DeepGasLimit(0) + TX_BASE_COST, FALSE, FALSE)

\* the VM that VM::new makes for DeepEnvironment
DeepNew ==
    [call_frames |-> <<>>,
     cache |-> load_account(reset_original_values(PreCache(DeepEnvironment.written)),
                            Addr.A),
     accrued_substate |-> Substate({}, default_touched_accounts(DeepEnvironment.fork)
                                       \cup {Addr.A},
                                   [a \in Addresses |-> {}], {}),
     refunded_gas |-> 0,
     transient_storage |-> [x \in Addresses \X Keys |-> NoSlot],
     return_data |-> <<>>, backups |-> <<>>]

\* the VM after prepare_execution, as every frame of the chain finds it
DeepPrepared ==
    prepare_execution(DeepNew,
                      CallFrame(Addr.origin, Addr.A, Addr.A, SomeCode, 0, <<>>, FALSE,
                                DeepEnvironment.gas_limit, 0, 0, FALSE)).vm

\* the frame of `depth` in the chain: it has paid for its CALL, unless it is the
\* last
DeepFrame(depth) ==
    [CallFrame(IF depth = 0 THEN Addr.origin ELSE Addr.A, Addr.A, Addr.A, SomeCode,
               IF depth = 0 THEN 0 ELSE 1, <<>>, FALSE,
               IF depth = 0 THEN DeepEnvironment.gas_limit ELSE DeepGasLimit(depth),
               0, depth, FALSE)
        EXCEPT !.gas_used = IF depth = CALL_DEPTH_LIMIT - 1 THEN 0
                            ELSE IF depth = 0 THEN TX_BASE_COST + DeepCallCost(0)
                            ELSE DeepCallCost(depth)]

InitDeep ==
    /\ fork = DeepEnvironment.fork
    /\ tx_kind = DeepEnvironment.kind
    /\ store = Store(DeepEnvironment.occupied)
    /\ call_frames = [i \in 1..CALL_DEPTH_LIMIT |-> DeepFrame(i - 1)]
    /\ cache = DeepPrepared.cache
    /\ accrued_substate = DeepPrepared.accrued_substate
    /\ refunded_gas = 0
    /\ transient_storage = DeepPrepared.transient_storage
    /\ return_data = [i \in 1..(CALL_DEPTH_LIMIT - 1) |->
                         RetData(FALSE, 0, 0, TRUE, Addr.A, Addr.A, 1, DeepGasLimit(i))]
    /\ backups = [i \in 1..CALL_DEPTH_LIMIT |->
                     StateBackup(DeepPrepared.cache, DeepPrepared.accrued_substate, 0,
                                 DeepPrepared.transient_storage)]
    /\ phase = "running"
    /\ report = NoReport
    /\ steps = 0
    /\ guest = NoGuest
    /\ cache_backup = cache
    /\ access_list = <<>>
    /\ hist = [NoHistory(StartValues(PreCache(DeepEnvironment.written),
                                     Store(DeepEnvironment.occupied)))
                  EXCEPT !.op = "CALL",
                         !.args = <<DeepGasLimit(CALL_DEPTH_LIMIT - 1)
                                    - CALL_POSITIVE_VALUE_STIPEND, Addr.A, 1>>,
                         !.open = [i \in 1..CALL_DEPTH_LIMIT |->
                                      IF i = 1
                                      THEN Opened("execute", Snap(DeepNew), Snap(DeepPrepared))
                                      ELSE Opened("CALL", Snap(DeepPrepared),
                                                  Snap(DeepPrepared))]]

\* the opcodes that enter a frame and the writes to transient storage, run from
\* the deepest stack
NextDeep ==
    \/ Tstore
    \/ Call
    \/ Callcode
    \/ Delegatecall
    \/ Staticcall
    \/ Create
    \/ Create2

SpecDeep == InitDeep /\ [][NextDeep]_vars

\* ------------------------------------------------- storage-writing programs
\* A contract that writes its slot, calls itself, destroys itself and ends its
\* frames, on every fork and from every stored value of the slot.
WrittenValues == {0, 1, 2}
MaxWrites == 3

\* the world state with A's slot holding v
StoreHolding(v) == [Store(FALSE) EXCEPT ![Addr.A].storage = [k \in Keys |-> v]]

\* VM::new for a call of A with 200000 gas
InitWriting ==
    /\ fork \in DOMAIN ForkRank
    /\ tx_kind = "Call"
    /\ \E v \in WrittenValues :
          /\ store = StoreHolding(v)
          /\ hist = NoHistory(StartValues(PreCache(FALSE), StoreHolding(v)))
    /\ cache = load_account(reset_original_values(PreCache(FALSE)), Addr.A)
    /\ accrued_substate = Substate({}, default_touched_accounts(fork) \cup {Addr.A},
                                   [a \in Addresses |-> {}], {})
    /\ call_frames = << CallFrame(Addr.origin, Addr.A, Addr.A, SomeCode, 0, <<>>,
                                  FALSE, 200000, 0, 0, FALSE) >>
    /\ refunded_gas = 0
    /\ transient_storage = [x \in Addresses \X Keys |-> NoSlot]
    /\ return_data = <<>>
    /\ backups = <<>>
    /\ phase = "new"
    /\ report = NoReport
    /\ steps = 0
    /\ guest = NoGuest
    /\ cache_backup = cache
    /\ access_list = <<>>

MayWrite == InLoop /\ HasCode /\ steps < MaxWrites

Write ==
    MayWrite /\ \E key \in Keys, value \in WrittenValues :
        Apply("SSTORE", <<key, value>>, op_sstore(VM, key, value), TRUE)

Reenter ==
    MayWrite /\ Apply("CALL", <<100000, Addr.A, 0>>, op_call(VM, 100000, Addr.A, 0, 0, 0), TRUE)

NextWriting ==
    \/ Execute
    \/ Write
    \/ Reenter
    \/ Stop
    \/ Revert
    \/ Selfdestruct

SpecWriting == InitWriting /\ [][NextWriting]_vars

\* --------------------------------------------------- static-context programs
\* A contract that enters static frames, with gas and without, and runs the
\* state-changing opcodes in them, on every fork.
StaticGas == {100000, 0}

StaticTargets == {Addr.A, Addr.B}

EnterStatic ==
    MayStep /\ \E gas \in StaticGas, target \in StaticTargets :
        Apply("STATICCALL", <<gas, target>>, op_staticcall(VM, gas, target), TRUE)

\* VM::new for a call of A with 200000 gas, A's slot holding 0
InitStatic == InitWriting /\ store = StoreHolding(0)

NextStatic ==
    \/ Execute
    \/ EnterStatic
    \/ Sstore
    \/ Tstore
    \/ Create
    \/ Create2
    \/ Selfdestruct
    \/ Call
    \/ Callcode
    \/ Delegatecall

SpecStatic == InitStatic /\ [][NextStatic]_vars

\* ------------------------------------------------- self-destructing programs
\* The transactions of Environments run by programs that call, create and end
\* their frames, self-destruction in favour of another account or of the new
\* contract (which, in its own frame, is the contract itself) included; they write
\* no storage, so that every refund is one of a self-destruction.
DestructTargets == {Addr.B, Addr.new}

Destruct ==
    InLoop /\ HasCode /\ \E target \in DestructTargets :
        Apply("SELFDESTRUCT", <<target>>, op_selfdestruct(VM, target), FALSE)

NextDestruct ==
    \/ Execute
    \/ RunPrecompile
    \/ Stop
    \/ Return
    \/ Revert
    \/ Invalid
    \/ Destruct
    \/ Call
    \/ Callcode
    \/ Delegatecall
    \/ Staticcall
    \/ Create
    \/ Create2

SpecDestruct == Init /\ [][NextDestruct]_vars

\* --------------------------------------------------------- deploying programs
\* A contract that creates contracts: with 1 wei or none, with a nonce of 1 or the
\* highest one, from the frame of the transaction, from a frame it calls, or from
\* the deepest stack.
Deployers == {<<1, 1>>, <<0, 1>>, <<1, U64_MAX>>}

\* the world state with A holding the balance and the nonce of d
StoreDeploying(d) == [Store(FALSE) EXCEPT ![Addr.A].balance = d[1], ![Addr.A].nonce = d[2]]

\* VM::new for a call of A with 200000 gas
InitDeploying ==
    /\ fork \in Forks
    /\ tx_kind = "Call"
    /\ \E d \in Deployers :
          /\ store = StoreDeploying(d)
          /\ hist = NoHistory(StartValues(PreCache(FALSE), StoreDeploying(d)))
    /\ cache = load_account(reset_original_values(PreCache(FALSE)), Addr.A)
    /\ accrued_substate = Substate({}, default_touched_accounts(fork) \cup {Addr.A},
                                   [a \in Addresses |-> {}], {})
    /\ call_frames = << CallFrame(Addr.origin, Addr.A, Addr.A, SomeCode, 0, <<>>,
                                  FALSE, 200000, 0, 0, FALSE) >>
    /\ refunded_gas = 0
    /\ transient_storage = [x \in Addresses \X Keys |-> NoSlot]
    /\ return_data = <<>>
    /\ backups = <<>>
    /\ phase = "new"
    /\ report = NoReport
    /\ steps = 0
    /\ guest = NoGuest
    /\ cache_backup = cache
    /\ access_list = <<>>

InitCreate == InitDeploying \/ InitDeep

NextCreate ==
    \/ Execute
    \/ Call
    \/ Create
    \/ Create2

SpecCreate == InitCreate /\ [][NextCreate]_vars

\* ----------------------------------------------------------- copying programs
\* A contract called with calldata or without that reads its calldata, copies
\* calldata, code and return data to memory, calls a contract that returns bytes,
\* and creates one.
CopyCode == <<96, 0, 7>>
Calldatas == {<<>>, <<7, 0, 9>>}
ReturnPayloads == {<<1>>, <<2, 0, 1>>}
\* (destination, offset in the source, size)
CopyArgs == {<<0, 0, 0>>, <<0, 0, 1>>, <<0, 0, 3>>, <<0, 1, 2>>, <<0, 2, 4>>,
             <<31, 0, 2>>, <<1, 3, 1>>, <<0, 5, 2>>}
LoadOffsets == {0, 1, 3, 4}
ExtcodeAddresses == {Addr.A, Addr.new}
MaxCopies == 2

\* the world state with A's code of three bytes
StoreCoded == [Store(FALSE) EXCEPT ![Addr.A].code = CopyCode]

\* VM::new for a call of A with 200000 gas
InitCopy ==
    /\ fork \in Forks
    /\ tx_kind = "Call"
    /\ store = StoreCoded
    /\ hist = NoHistory(StartValues(PreCache(FALSE), StoreCoded))
    /\ cache = load_account(reset_original_values(PreCache(FALSE)), Addr.A)
    /\ accrued_substate = Substate({}, default_touched_accounts(fork) \cup {Addr.A},
                                   [a \in Addresses |-> {}], {})
    /\ \E calldata \in Calldatas :
          call_frames = << CallFrame(Addr.origin, Addr.A, Addr.A, CopyCode, 0, calldata,
                                     FALSE, 200000, 0, 0, FALSE) >>
    /\ refunded_gas = 0
    /\ transient_storage = [x \in Addresses \X Keys |-> NoSlot]
    /\ return_data = <<>>
    /\ backups = <<>>
    /\ phase = "new"
    /\ report = NoReport
    /\ steps = 0
    /\ guest = NoGuest
    /\ cache_backup = cache
    /\ access_list = <<>>

MayCopy == InLoop /\ HasCode /\ steps < MaxCopies

CallForData ==
    MayCopy /\ Apply("CALL", <<100000, Addr.B, 0>>, op_call(VM, 100000, Addr.B, 0, 0, 0), TRUE)

ReturnBytes ==
    InLoop /\ HasCode /\ \E data \in ReturnPayloads :
        Apply("RETURN", <<data>>, op_return(VM, data), FALSE)

Calldataload ==
    MayCopy /\ \E offset \in LoadOffsets :
        Apply("CALLDATALOAD", <<offset>>, op_calldataload(VM, offset), TRUE)

Calldatacopy ==
    MayCopy /\ \E a \in CopyArgs :
        Apply("CALLDATACOPY", a, op_calldatacopy(VM, a[1], a[2], a[3]), TRUE)

Codecopy ==
    MayCopy /\ \E a \in CopyArgs :
        Apply("CODECOPY", a, op_codecopy(VM, a[1], a[2], a[3]), TRUE)

Extcodecopy ==
    MayCopy /\ \E address \in ExtcodeAddresses, a \in CopyArgs :
        Apply("EXTCODECOPY", <<address>> \o a,
              op_extcodecopy(VM, address, a[1], a[2], a[3]), TRUE)

Returndatasize == MayCopy /\ Apply("RETURNDATASIZE", <<>>, op_returndatasize(VM), TRUE)

Returndatacopy ==
    MayCopy /\ \E a \in CopyArgs :
        Apply("RETURNDATACOPY", a, op_returndatacopy(VM, a[1], a[2], a[3]), TRUE)

NextCopy ==
    \/ Execute
    \/ CallForData
    \/ ReturnBytes
    \/ Calldataload
    \/ Calldatacopy
    \/ Codecopy
    \/ Extcodecopy
    \/ Returndatasize
    \/ Returndatacopy
    \/ Create

SpecCopy == InitCopy /\ [][NextCopy]_vars

\* ------------------------------------------- programs using transient storage
\* Contracts A and B write and read transient storage, call themselves and each
\* other (CALL, CALLCODE, DELEGATECALL), and stop, revert or halt.
TransientWrites == {1, 2}
SharingTargets == {Addr.A, Addr.B}
MaxTransient == 3

InitTransient == InitWriting /\ fork \in Forks /\ store = StoreHolding(0)

MayShare == InLoop /\ HasCode /\ steps < MaxTransient

TloadShared == MayShare /\ \E key \in Keys : Apply("TLOAD", <<key>>, op_tload(VM, key), TRUE)

TstoreShared ==
    MayShare /\ \E key \in Keys, value \in TransientWrites :
        Apply("TSTORE", <<key, value>>, op_tstore(VM, key, value), TRUE)

CallShared ==
    MayShare /\ \E callee \in SharingTargets :
        Apply("CALL", <<100000, callee, 0>>, op_call(VM, 100000, callee, 0, 0, 0), TRUE)

CallcodeShared ==
    MayShare /\ Apply("CALLCODE", <<100000, Addr.B, 0>>, op_callcode(VM, 100000, Addr.B, 0), TRUE)

DelegatecallShared ==
    MayShare /\ Apply("DELEGATECALL", <<100000, Addr.B>>, op_delegatecall(VM, 100000, Addr.B), TRUE)

NextTransient ==
    \/ Execute
    \/ TloadShared
    \/ TstoreShared
    \/ CallShared
    \/ CallcodeShared
    \/ DelegatecallShared
    \/ Stop
    \/ Revert
    \/ Invalid

SpecTransient == InitTransient /\ [][NextTransient]_vars

\* ----------------------------------------------------- programs that never stop
\* A's code starts with two JUMPDESTs.  Nothing but gas limits how long the program
\* runs: at every turn it may jump to either of them (or past the code), call
\* itself with all the gas it may forward, stop or revert.
LoopCode == <<91, 91>>
GasLimits == {TX_BASE_COST + 120}
JumpTargets == {0, 1, 2}

StoreLooping == [Store(FALSE) EXCEPT ![Addr.A].code = LoopCode]

\* VM::new for a call of A
InitGas ==
    /\ fork \in Forks
    /\ tx_kind = "Call"
    /\ store = StoreLooping
    /\ hist = NoHistory(StartValues(PreCache(FALSE), StoreLooping))
    /\ cache = load_account(reset_original_values(PreCache(FALSE)), Addr.A)
    /\ accrued_substate = Substate({}, default_touched_accounts(fork) \cup {Addr.A},
                                   [a \in Addresses |-> {}], {})
    /\ \E gas_limit \in GasLimits :
          call_frames = << CallFrame(Addr.origin, Addr.A, Addr.A, LoopCode, 0, <<>>,
                                     FALSE, gas_limit, 0, 0, FALSE) >>
    /\ refunded_gas = 0
    /\ transient_storage = [x \in Addresses \X Keys |-> NoSlot]
    /\ return_data = <<>>
    /\ backups = <<>>
    /\ phase = "new"
    /\ report = NoReport
    /\ steps = 0
    /\ guest = NoGuest
    /\ cache_backup = cache
    /\ access_list = <<>>

Jump ==
    InLoop /\ HasCode /\ \E target \in JumpTargets :
        Apply("JUMP", <<target>>, op_jump(VM, target), FALSE)

CallSelf ==
    InLoop /\ HasCode /\ Apply("CALL", <<200000, Addr.A, 0>>, op_call(VM, 200000, Addr.A, 0, 0, 0), FALSE)

NextGas ==
    \/ Execute
    \/ Jump
    \/ CallSelf
    \/ Stop
    \/ Revert

\* run_execution is a loop without suspension: while it has not returned, its
\* next turn is taken
SpecGas == InitGas /\ [][NextGas]_vars /\ WF_vars(NextGas)

\* ------------------------------------------------ transactions with access lists
\* an access list is a sequence of entries <<address, keys>>
AccessLists ==
    {<< >>,
     << <<Addr.B, <<0>> >> >>,
     << <<Addr.A, <<0>> >>, <<Addr.B, << >> >> >>,
     << <<Addr.A, << >> >>, <<Addr.A, <<0>> >> >>,
     << <<Addr.A, <<0>> >>, <<Addr.A, << >> >> >>}

\* VM::new for a call of A and for a create, with the transaction's access list
InitAccess ==
    /\ fork \in Forks
    /\ tx_kind \in {"Call", "Create"}
    /\ access_list \in AccessLists
    /\ store = Store(FALSE)
    /\ hist = NoHistory(StartValues(PreCache(FALSE), Store(FALSE)))
    /\ LET to == IF tx_kind = "Call" THEN Addr.A ELSE Addr.new
       IN  /\ cache = load_account(reset_original_values(PreCache(FALSE)),
                                   IF tx_kind = "Call" THEN to ELSE Addr.origin)
           /\ accrued_substate =
                  Substate({}, default_touched_accounts(fork)
                               \cup access_list_accounts(access_list) \cup {to},
                           default_touched_storage_slots(access_list),
                           IF tx_kind = "Call" THEN {} ELSE {to})
           /\ call_frames =
                  << CallFrame(Addr.origin, to, to,
                               IF tx_kind = "Call" THEN SomeCode ELSE <<>>, 0,
                               IF tx_kind = "Call" THEN <<>> ELSE SomeCode,
                               FALSE, 200000, 0, 0, FALSE) >>
    /\ refunded_gas = 0
    /\ transient_storage = [x \in Addresses \X Keys |-> NoSlot]
    /\ return_data = <<>>
    /\ backups = <<>>
    /\ phase = "new"
    /\ report = NoReport
    /\ steps = 0
    /\ guest = NoGuest
    /\ cache_backup = cache

NextAccess ==
    \/ Execute
    \/ Sload
    \/ Sstore
    \/ Call
    \/ Stop

SpecAccess == InitAccess /\ [][NextAccess]_vars

\* ------------------------------------------------- calls of a delegated account
\* B's code is the EIP-7702 designator of A.  A is called with little or plenty
\* of gas and calls itself and B with each of the four CALL opcodes.
DelegatedGasLimits == {TX_BASE_COST + 50, TX_BASE_COST + 5000}
DelegatedCallGas == {60, 100000}

StoreDelegated == [Store(FALSE) EXCEPT ![Addr.B].code = <<239, 1, 0, Addr.A>>]

\* VM::new for a call of A
InitDelegated ==
    /\ fork \in {"Prague", "Osaka"}
    /\ tx_kind = "Call"
    /\ store = StoreDelegated
    /\ hist = NoHistory(StartValues(PreCache(FALSE), StoreDelegated))
    /\ cache = load_account(reset_original_values(PreCache(FALSE)), Addr.A)
    /\ accrued_substate = Substate({}, default_touched_accounts(fork) \cup {Addr.A},
                                   [a \in Addresses |-> {}], {})
    /\ \E gas_limit \in DelegatedGasLimits :
          call_frames = << CallFrame(Addr.origin, Addr.A, Addr.A, SomeCode, 0, <<>>,
                                     FALSE, gas_limit, 0, 0, FALSE) >>
    /\ refunded_gas = 0
    /\ transient_storage = [x \in Addresses \X Keys |-> NoSlot]
    /\ return_data = <<>>
    /\ backups = <<>>
    /\ phase = "new"
    /\ report = NoReport
    /\ steps = 0
    /\ guest = NoGuest
    /\ cache_backup = cache
    /\ access_list = <<>>

CallDelegated ==
    MayStep /\ \E gas \in DelegatedCallGas, callee \in {Addr.A, Addr.B} :
        Apply("CALL", <<gas, callee, 0>>, op_call(VM, gas, callee, 0, 0, 0), TRUE)

CallcodeDelegated ==
    MayStep /\ \E gas \in DelegatedCallGas :
        Apply("CALLCODE", <<gas, Addr.B, 0>>, op_callcode(VM, gas, Addr.B, 0), TRUE)

DelegatecallDelegated ==
    MayStep /\ \E gas \in DelegatedCallGas :
        Apply("DELEGATECALL", <<gas, Addr.B>>, op_delegatecall(VM, gas, Addr.B), TRUE)

StaticcallDelegated ==
    MayStep /\ \E gas \in DelegatedCallGas :
        Apply("STATICCALL", <<gas, Addr.B>>, op_staticcall(VM, gas, Addr.B), TRUE)

NextDelegated ==
    \/ Execute
    \/ CallDelegated
    \/ CallcodeDelegated
    \/ DelegatecallDelegated
    \/ StaticcallDelegated
    \/ Stop

SpecDelegated == InitDelegated /\ [][NextDelegated]_vars

\* ----------------------------------------------------------- stateless_execute
\* VM::stateless_execute after execute has returned a report: the cache is put
\* back.  When execute returns an error, the `?` returns it at once and nothing
\* more is done.
StatelessRestore ==
    /\ phase = "returned"
    /\ cache' = cache_backup
    /\ phase' = "restored"
    /\ hist' = [hist EXCEPT !.op = "stateless_execute"]
    /\ UNCHANGED <<guest, fork, tx_kind, access_list, store, cache_backup, call_frames,
                   accrued_substate, refunded_gas, transient_storage, return_data,
                   backups, report, steps>>

NextStateless ==
    \/ Execute
    \/ Sstore
    \/ CallDelegated
    \/ StaticcallDelegated
    \/ Stop
    \/ Revert
    \/ StatelessRestore

SpecStateless == InitDelegated /\ [][NextStateless]_vars

\* ------------------------------------------------------- the zkVM guest program
\* The state roots and trie hashes are drawn from two values; what the library
\* calls answer (validate_block, get_tries, verify_db, execute_block,
\* validate_gas_used, update_tries) is chosen at each call.
Hashes == {1, 2, 3}
Outcomes == [ok : BOOLEAN, valid : BOOLEAN, hash : Hashes, gas : {0, 21000}]

\* main up to env::read: ProgramInput has been read
Guest(state_root, parent_state_root) ==
    [pc |-> "validate_block", state_root |-> state_root,
     parent_state_root |-> parent_state_root, state_trie |-> 0,
     initial_state_hash |-> 0, final_state_hash |-> 0, cumulative_gas_used |-> 0,
     passed |-> <<>>, written |-> <<>>, committed |-> <<>>]

\* main checking nothing about the final state trie
main_step_trusting_final_state(g, o) ==
    LET panic == [g EXCEPT !.pc = "panicked"]
        pass(name, pc) == [g EXCEPT !.pc = pc, !.passed = Append(@, name)]
    IN  CASE g.pc = "validate_block" ->
                 IF o.ok THEN pass("validate_block", "get_tries") ELSE panic
          [] g.pc = "get_tries" ->
                 IF o.ok THEN [g EXCEPT !.pc = "initial_state", !.state_trie = o.hash]
                 ELSE panic
          [] g.pc = "initial_state" ->
                 IF g.state_trie # g.parent_state_root THEN panic
                 ELSE [pass("initial_state", "verify_db")
                          EXCEPT !.initial_state_hash = g.state_trie]
          [] g.pc = "verify_db" ->
                 IF o.ok /\ o.valid THEN pass("verify_db", "execute_block") ELSE panic
          [] g.pc = "execute_block" ->
                 IF o.ok THEN [pass("execute_block", "validate_gas_used")
                                  EXCEPT !.cumulative_gas_used = o.gas]
                 ELSE panic
          [] g.pc = "validate_gas_used" ->
                 IF o.ok THEN pass("validate_gas_used", "write") ELSE panic
          [] g.pc = "write" ->
                 [g EXCEPT !.pc = "update_tries",
                           !.written = Append(@, g.cumulative_gas_used)]
          [] g.pc = "update_tries" ->
                 IF o.ok THEN [pass("update_tries", "final_state")
                                  EXCEPT !.state_trie = o.hash]
                 ELSE panic
          [] g.pc = "final_state" ->
                 IF FALSE THEN panic
                 ELSE [pass("final_state", "commit")
                          EXCEPT !.final_state_hash = g.state_trie]
          [] g.pc = "commit" ->
                 [g EXCEPT !.pc = "done",
                           !.committed = Append(@, [initial_state_hash |-> g.initial_state_hash,
                                                    final_state_hash |-> g.final_state_hash])]
          [] OTHER -> g

\* main, one statement at a time; `o` is what the library call of the statement
\* answers; a failed expect and a panic! end the program
main_step(g, o) ==
    LET panic == [g EXCEPT !.pc = "panicked"]
        pass(name, pc) == [g EXCEPT !.pc = pc, !.passed = Append(@, name)]
    IN  CASE g.pc = "validate_block" ->
                 IF o.ok THEN pass("validate_block", "get_tries") ELSE panic
          [] g.pc = "get_tries" ->
                 IF o.ok THEN [g EXCEPT !.pc = "initial_state", !.state_trie = o.hash]
                 ELSE panic
          [] g.pc = "initial_state" ->
                 IF g.state_trie # g.parent_state_root THEN panic
                 ELSE [pass("initial_state", "verify_db")
                          EXCEPT !.initial_state_hash = g.state_trie]
          [] g.pc = "verify_db" ->
                 IF o.ok /\ o.valid THEN pass("verify_db", "execute_block") ELSE panic
          [] g.pc = "execute_block" ->
                 IF o.ok THEN [pass("execute_block", "validate_gas_used")
                                  EXCEPT !.cumulative_gas_used = o.gas]
                 ELSE panic
          [] g.pc = "validate_gas_used" ->
                 IF o.ok THEN pass("validate_gas_used", "write") ELSE panic
          [] g.pc = "write" ->
                 [g EXCEPT !.pc = "update_tries",
                           !.written = Append(@, g.cumulative_gas_used)]
          [] g.pc = "update_tries" ->
                 IF o.ok THEN [pass("update_tries", "final_state")
                                  EXCEPT !.state_trie = o.hash]
                 ELSE panic
          [] g.pc = "final_state" ->
                 IF g.state_trie # g.state_root THEN panic
                 ELSE [pass("final_state", "commit")
                          EXCEPT !.final_state_hash = g.state_trie]
          [] g.pc = "commit" ->
                 [g EXCEPT !.pc = "done",
                           !.committed = Append(@, [initial_state_hash |-> g.initial_state_hash,
                                                    final_state_hash |-> g.final_state_hash])]
          [] OTHER -> g

\* no transaction is run by the model while the guest program runs
InitGuest ==
    /\ \E state_root \in Hashes, parent_state_root \in Hashes :
          guest = Guest(state_root, parent_state_root)
    /\ fork = "Cancun"
    /\ tx_kind = "Call"
    /\ access_list = <<>>
    /\ store = Store(FALSE)
    /\ cache = PreCache(FALSE)
    /\ cache_backup = cache
    /\ call_frames = <<>>
    /\ accrued_substate = Substate({}, {}, [a \in Addresses |-> {}], {})
    /\ refunded_gas = 0
    /\ transient_storage = [x \in Addresses \X Keys |-> NoSlot]
    /\ return_data = <<>>
    /\ backups = <<>>
    /\ phase = "new"
    /\ report = NoReport
    /\ steps = 0
    /\ hist = NoHistory(StartValues(PreCache(FALSE), Store(FALSE)))

GuestStep ==
    /\ guest.pc \notin {"none", "done", "panicked"}
    /\ \E o \in Outcomes : guest' = main_step(guest, o)
    /\ UNCHANGED <<fork, tx_kind, access_list, store, cache, cache_backup, call_frames,
                   accrued_substate, refunded_gas, transient_storage, return_data,
                   backups, phase, report, steps, hist>>

NextGuest == GuestStep

SpecGuest == InitGuest /\ [][NextGuest]_vars

\* ------------------------------------------ deploying to an address that holds wei
\* A contract that creates contracts at an address that holds wei and a stored slot
\* but neither code nor a nonce, before and after Spurious Dragon, and whose
\* initialization code stops, reverts or halts.
FundedForks == {"Tangerine", "Istanbul", "Cancun"}
HeldBalances == {0, 2}

\* the world state with A holding the balance and the nonce of d and the address of
\* new contracts holding b
StoreFunded(d, b) ==
    [StoreDeploying(d) EXCEPT ![Addr.new] = StoredAccount(b # 0, b, 0, <<>>, 1)]

\* VM::new for a call of A with 200000 gas
InitFunded ==
    /\ fork \in FundedForks
    /\ tx_kind = "Call"
    /\ \E d \in Deployers, b \in HeldBalances :
          /\ store = StoreFunded(d, b)
          /\ hist = NoHistory(StartValues(PreCache(FALSE), StoreFunded(d, b)))
    /\ cache = load_account(reset_original_values(PreCache(FALSE)), Addr.A)
    /\ accrued_substate = Substate({}, default_touched_accounts(fork) \cup {Addr.A},
                                   [a \in Addresses |-> {}], {})
    /\ call_frames = << CallFrame(Addr.origin, Addr.A, Addr.A, SomeCode, 0, <<>>,
                                  FALSE, 200000, 0, 0, FALSE) >>
    /\ refunded_gas = 0
    /\ transient_storage = [x \in Addresses \X Keys |-> NoSlot]
    /\ return_data = <<>>
    /\ backups = <<>>
    /\ phase = "new"
    /\ report = NoReport
    /\ steps = 0
    /\ guest = NoGuest
    /\ cache_backup = cache
    /\ access_list = <<>>

NextFunded ==
    \/ Execute
    \/ Call
    \/ Staticcall
    \/ Create
    \/ Create2
    \/ Stop
    \/ Return
    \/ Revert
    \/ Invalid

SpecFunded == InitFunded /\ [][NextFunded]_vars

\* ------------------------------------------- programs receiving bytes in memory
\* A contract that fills its memory with its code, logs, calls a contract or a
\* precompile with a return range, and creates a contract; the contract called and
\* the initialization code log, return bytes shorter and longer than the range,
\* stop or revert.
\* (callee, offset, size): the callee and the return range of a CALL
ReturningCalls ==
    {<<Addr.B, 0, 0>>, <<Addr.B, 0, 2>>, <<Addr.B, 1, 5>>, <<Addr.precompile, 30, 3>>}
LogData == {<<5>>}
MaxLogs == 1

\* the opcodes of A's code that do not end its frame
MayReceive == MayCopy /\ current_call_frame(VM).to = Addr.A

CodecopyWhole ==
    MayReceive /\ Apply("CODECOPY", <<0, 0, 3>>, op_codecopy(VM, 0, 0, 3), TRUE)

CallInto ==
    MayReceive /\ \E c \in ReturningCalls :
        Apply("CALL", <<100000, c[1], 0, c[2], c[3]>>,
              op_call(VM, 100000, c[1], 0, c[2], c[3]), TRUE)

Log ==
    /\ InLoop /\ HasCode /\ Len(current_call_frame(VM).logs) < MaxLogs
    /\ \E data \in LogData : Apply("LOG0", <<data>>, op_log(VM, data), FALSE)

CreateLogging ==
    MayReceive /\ Apply("CREATE", <<0, SomeCode>>, op_create(VM, 0, SomeCode), TRUE)

NextReturn ==
    \/ Execute
    \/ CodecopyWhole
    \/ CallInto
    \/ Log
    \/ ReturnBytes
    \/ Stop
    \/ Revert
    \/ CreateLogging

\* VM::new for a call of A without calldata
InitReturn == InitCopy /\ call_frames[1].calldata = <<>>

SpecReturn == InitReturn /\ [][NextReturn]_vars

\* ------------------------------------------- programs writing with little gas
\* A contract that writes its slot with 2300 gas left, with 2301, with what a
\* write of a warm slot costs and with plenty, before and after Istanbul.
StipendForks == {"Byzantium", "Istanbul", "Cancun"}
StipendGasLimits == {TX_BASE_COST + 2300, TX_BASE_COST + 2301, TX_BASE_COST + 5000,
                     TX_BASE_COST + 30000}
StipendValues == {0, 1}

\* VM::new for a call of A
InitStipend ==
    /\ fork \in StipendForks
    /\ tx_kind = "Call"
    /\ \E v \in StipendValues :
          /\ store = StoreHolding(v)
          /\ hist = NoHistory(StartValues(PreCache(FALSE), StoreHolding(v)))
    /\ cache = load_account(reset_original_values(PreCache(FALSE)), Addr.A)
    /\ accrued_substate = Substate({}, default_touched_accounts(fork) \cup {Addr.A},
                                   [a \in Addresses |-> {}], {})
    /\ \E gas_limit \in StipendGasLimits :
          call_frames = << CallFrame(Addr.origin, Addr.A, Addr.A, SomeCode, 0, <<>>,
                                     FALSE, gas_limit, 0, 0, FALSE) >>
    /\ refunded_gas = 0
    /\ transient_storage = [x \in Addresses \X Keys |-> NoSlot]
    /\ return_data = <<>>
    /\ backups = <<>>
    /\ phase = "new"
    /\ report = NoReport
    /\ steps = 0
    /\ guest = NoGuest
    /\ cache_backup = cache
    /\ access_list = <<>>

NextStipend ==
    \/ Execute
    \/ Write
    \/ Sload
    \/ Stop
    \/ Revert

SpecStipend == InitStipend /\ [][NextStipend]_vars

\* ----------------------------------------------------------- jumping programs
\* A contract whose code is JUMPDEST, PUSH1 0x5b, JUMPDEST: positions 0 and 3 are
\* jump destinations, position 2 holds 0x5b as the immediate byte of the PUSH1.
\* It jumps, with and without a condition, to positions in and beyond its code,
\* with gas for two jumps and with gas for none.
JumpCode == <<91, 96, 91, 91>>
JumpDestinations == {0, 1, 2, 3, 4}
JumpConditions == {0, 1, 2}
JumpGasLimits == {TX_BASE_COST + 5, TX_BASE_COST + 100}

StoreJumping == [Store(FALSE) EXCEPT ![Addr.A].code = JumpCode]

\* VM::new for a call of A
InitJump ==
    /\ fork \in Forks
    /\ tx_kind = "Call"
    /\ store = StoreJumping
    /\ hist = NoHistory(StartValues(PreCache(FALSE), StoreJumping))
    /\ cache = load_account(reset_original_values(PreCache(FALSE)), Addr.A)
    /\ accrued_substate = Substate({}, default_touched_accounts(fork) \cup {Addr.A},
                                   [a \in Addresses |-> {}], {})
    /\ \E gas_limit \in JumpGasLimits :
          call_frames = << CallFrame(Addr.origin, Addr.A, Addr.A, JumpCode, 0, <<>>,
                                     FALSE, gas_limit, 0, 0, FALSE) >>
    /\ refunded_gas = 0
    /\ transient_storage = [x \in Addresses \X Keys |-> NoSlot]
    /\ return_data = <<>>
    /\ backups = <<>>
    /\ phase = "new"
    /\ report = NoReport
    /\ steps = 0
    /\ guest = NoGuest
    /\ cache_backup = cache
    /\ access_list = <<>>

JumpTo ==
    MayStep /\ \E destination \in JumpDestinations :
        Apply("JUMP", <<destination>>, op_jump(VM, destination), TRUE)

Jumpi ==
    MayStep /\ \E destination \in JumpDestinations, condition \in JumpConditions :
        Apply("JUMPI", <<destination, condition>>,
              op_jumpi(VM, destination, condition), TRUE)

NextJump ==
    \/ Execute
    \/ JumpTo
    \/ Jumpi
    \/ Stop

SpecJump == InitJump /\ [][NextJump]_vars

\* ------------------------------------------------ programs calling a precompile
\* A contract, holding 1 wei or none, that calls a precompile with each of the four
\* opcodes, with gas for it and without, with a value and without, from the
\* transaction's frame, from a called frame and from a static frame, after it has
\* written storage.
PrecompileGas == {0, 100000}
PrecompileValues == {0, 1}

CallPrecompile ==
    MayStep /\ \E gas \in PrecompileGas, value \in PrecompileValues :
        Apply("CALL", <<gas, Addr.precompile, value>>,
              op_call(VM, gas, Addr.precompile, value, 0, 0), TRUE)

CallcodePrecompile ==
    MayStep /\ \E gas \in PrecompileGas, value \in PrecompileValues :
        Apply("CALLCODE", <<gas, Addr.precompile, value>>,
              op_callcode(VM, gas, Addr.precompile, value), TRUE)

DelegatecallPrecompile ==
    MayStep /\ \E gas \in PrecompileGas :
        Apply("DELEGATECALL", <<gas, Addr.precompile>>,
              op_delegatecall(VM, gas, Addr.precompile), TRUE)

StaticcallPrecompile ==
    MayStep /\ \E gas \in PrecompileGas :
        Apply("STATICCALL", <<gas, Addr.precompile>>,
              op_staticcall(VM, gas, Addr.precompile), TRUE)

NextPrecompile ==
    \/ Execute
    \/ CallPrecompile
    \/ CallcodePrecompile
    \/ DelegatecallPrecompile
    \/ StaticcallPrecompile
    \/ Call
    \/ Staticcall
    \/ Sstore
    \/ Tstore
    \/ Stop

SpecPrecompile == InitDeploying /\ [][NextPrecompile]_vars

\* ------------------------------------------------ calls of a designator account
\* B's code is the EIP-7702 designator of A, which has code and is warm, of the
\* transaction's origin, which has no code and is warm, or of a cold address that
\* holds no account or a contract.  A, holding 1 wei or none, calls B, the coinbase, with
\* each of the four CALL opcodes, with a value and without, and its frames end.
Designations == {<<Addr.A, <<>> >>, <<Addr.origin, <<>> >>, <<Addr.new, <<>> >>,
                 <<Addr.new, SomeCode>>}
DesignatorBalances == {0, 1}
DesignatorValues == {0, 1}

StoreDesignating(auth, code, b) ==
    [Store(FALSE) EXCEPT ![Addr.B].code = <<239, 1, 0, auth>>,
                         ![Addr.A].balance = b,
                         ![Addr.new] = IF code = <<>> THEN @
                                       ELSE StoredAccount(TRUE, 0, 1, code, 0)]

\* VM::new for a call of A with 200000 gas
InitDesignated ==
    /\ fork \in {"Prague", "Osaka"}
    /\ tx_kind = "Call"
    /\ \E d \in Designations, b \in DesignatorBalances :
          /\ store = StoreDesignating(d[1], d[2], b)
          /\ hist = NoHistory(StartValues(PreCache(FALSE), StoreDesignating(d[1], d[2], b)))
    /\ cache = load_account(reset_original_values(PreCache(FALSE)), Addr.A)
    /\ accrued_substate = Substate({}, default_touched_accounts(fork) \cup {Addr.A},
                                   [a \in Addresses |-> {}], {})
    /\ call_frames = << CallFrame(Addr.origin, Addr.A, Addr.A, SomeCode, 0, <<>>,
                                  FALSE, 200000, 0, 0, FALSE) >>
    /\ refunded_gas = 0
    /\ transient_storage = [x \in Addresses \X Keys |-> NoSlot]
    /\ return_data = <<>>
    /\ backups = <<>>
    /\ phase = "new"
    /\ report = NoReport
    /\ steps = 0
    /\ guest = NoGuest
    /\ cache_backup = cache
    /\ access_list = <<>>

CallDesignator ==
    MayStep /\ \E value \in DesignatorValues :
        Apply("CALL", <<100000, Addr.B, value>>,
              op_call(VM, 100000, Addr.B, value, 0, 0), TRUE)

CallcodeDesignator ==
    MayStep /\ \E value \in DesignatorValues :
        Apply("CALLCODE", <<100000, Addr.B, value>>,
              op_callcode(VM, 100000, Addr.B, value), TRUE)

DelegatecallDesignator ==
    MayStep /\ Apply("DELEGATECALL", <<100000, Addr.B>>,
                     op_delegatecall(VM, 100000, Addr.B), TRUE)

StaticcallDesignator ==
    MayStep /\ Apply("STATICCALL", <<100000, Addr.B>>,
                     op_staticcall(VM, 100000, Addr.B), TRUE)

NextDesignated ==
    \/ Execute
    \/ CallDesignator
    \/ CallcodeDesignator
    \/ DelegatecallDesignator
    \/ StaticcallDesignator
    \/ Stop
    \/ Revert

SpecDesignated == InitDesignated /\ [][NextDesignated]_vars

\* ------------------------------------------------ every outcome of a call
\* The transactions of each kind, the deploying contracts, the deepest stack and
\* the calls of B as a designator of A and of the origin together: programs that
\* call contracts, precompiles and designators and create contracts, and whose frames, those of
\* the deepest stack apart, end by STOP, RETURN, REVERT and INVALID.
InitOutcome ==
    \/ Init
    \/ InitDeploying /\ fork = "Cancun"
    \/ InitDeep
    \/ InitDesignated /\ fork = "Prague" /\ store[Addr.A].balance = 1
                      /\ store[Addr.B].code \in {<<239, 1, 0, Addr.A>>, <<239, 1, 0, Addr.origin>>}

\* the frames of the deepest stack end by their errors only
Shallow == Len(call_frames) <= MaxSteps + 1

StopShallow == Shallow /\ Stop

ReturnShallow == Shallow /\ Return

RevertShallow == Shallow /\ Revert

InvalidShallow == Shallow /\ Invalid

NextOutcome ==
    \/ Execute
    \/ RunPrecompile
    \/ Call
    \/ Callcode
    \/ Delegatecall
    \/ Staticcall
    \/ Create
    \/ Create2
    \/ StopShallow
    \/ ReturnShallow
    \/ RevertShallow
    \/ InvalidShallow

SpecOutcome == InitOutcome /\ [][NextOutcome]_vars

\* ------------------------------------------------ programs called read-only
\* A contract that writes its slot and its transient storage, calls itself and B
\* with STATICCALL, and in the frames beneath calls on with CALL, CALLCODE and
\* DELEGATECALL, writes, creates, self-destructs and ends, on Cancun.
InitReadOnly == InitStatic /\ fork = "Cancun"

NextReadOnly ==
    \/ Execute
    \/ EnterStatic
    \/ Write
    \/ Tstore
    \/ Call
    \/ Callcode
    \/ Delegatecall
    \/ Create
    \/ Selfdestruct
    \/ Stop
    \/ Revert
    \/ Invalid

SpecReadOnly == InitReadOnly /\ [][NextReadOnly]_vars

\* ------------------------------ deploying to an address that has received wei
\* A contract holding 1 wei that sends it to the address of its next contract,
\* an address without an account or with 2 wei, and then creates the contract,
\* whose initialization code ends, reverts or halts.
Endow ==
    MayStep /\ Apply("CALL", <<100000, Addr.new, 1>>,
                     op_call(VM, 100000, Addr.new, 1, 0, 0), TRUE)

CreateWithoutValue ==
    MayStep /\ current_call_frame(VM).to # Addr.new
            /\ Apply("CREATE", <<0, SomeCode>>, op_create(VM, 0, SomeCode), TRUE)

NextEndowed ==
    \/ Execute
    \/ Endow
    \/ Create
    \/ CreateWithoutValue
    \/ Stop
    \/ Return
    \/ Revert
    \/ Invalid

SpecEndowed == InitFunded /\ [][NextEndowed]_vars

\* ------------------------------------------------ creation transactions
\* Transactions that create a contract at an address that holds no account, an
\* account with a nonce, or an account with code, with a value and without; the
\* initialization code writes, calls and ends.
CreationForks == {"Tangerine", "Istanbul", "Cancun"}
CreationValues == {0, 1}
Occupants == {"none", "nonce", "code"}

StoreOccupied(o) ==
    IF o = "none" THEN Store(FALSE)
    ELSE IF o = "nonce" THEN Store(TRUE)
    ELSE [Store(TRUE) EXCEPT ![Addr.new].nonce = 0, ![Addr.new].code = SomeCode]

\* VM::new for a creation with 200000 gas
InitCreation ==
    /\ fork \in CreationForks
    /\ tx_kind = "Create"
    /\ \E o \in Occupants :
          /\ store = StoreOccupied(o)
          /\ hist = NoHistory(StartValues(PreCache(FALSE), StoreOccupied(o)))
    /\ cache = load_account(reset_original_values(PreCache(FALSE)), Addr.origin)
    /\ accrued_substate = Substate({}, default_touched_accounts(fork) \cup {Addr.new},
                                   [a \in Addresses |-> {}], {Addr.new})
    /\ \E value \in CreationValues :
          call_frames = << CallFrame(Addr.origin, Addr.new, Addr.new, <<>>, value,
                                     SomeCode, FALSE, 200000, 0, 0, FALSE) >>
    /\ refunded_gas = 0
    /\ transient_storage = [x \in Addresses \X Keys |-> NoSlot]
    /\ return_data = <<>>
    /\ backups = <<>>
    /\ phase = "new"
    /\ report = NoReport
    /\ steps = 0
    /\ guest = NoGuest
    /\ cache_backup = cache
    /\ access_list = <<>>

NextCreation ==
    \/ Execute
    \/ Sstore
    \/ Call
    \/ Stop
    \/ Return
    \/ Revert
    \/ Invalid

SpecCreation == InitCreation /\ [][NextCreation]_vars

\* ---------------------------------------------------------------- properties
\* the balance utils::get_account reads for an address
Balance(c, a) == get_account(c, a).balance

\* the step ends the current frame in failure (REVERT, an exceptional halt, or a
\* rejected deployment) and run_execution handles it
FailedExit == hist'.exited # NoExit /\ hist'.popped.result = "Revert" /\ phase' # "error"

\* the state at the entry of the frame the step works in, the state before the
\* opcode that entered it, and the opcode
EntryOfCurrent == hist.open[Len(call_frames)].entry
BeforeCurrent == hist.open[Len(call_frames)].pre
EnteredBy == hist.open[Len(call_frames)].by

\* the cache a failed child leaves: the cache at its entry with the value given
\* back to the sender, and a failed create's account dropped
CacheAfterFailure(entry_cache, rd) ==
    [a \in Addresses |->
        IF rd.is_create /\ a = rd.to THEN NoAccount
        ELSE IF rd.is_create /\ a = rd.msg_sender
        THEN [entry_cache[a] EXCEPT !.balance = @ + rd.value]
        ELSE IF ~rd.is_create /\ rd.should_transfer_value /\ rd.to # rd.msg_sender
                /\ a = rd.msg_sender
        THEN [entry_cache[a] EXCEPT !.balance = @ + rd.value]
        ELSE IF ~rd.is_create /\ rd.should_transfer_value /\ rd.to # rd.msg_sender
                /\ a = rd.to
        THEN [entry_cache[a] EXCEPT !.balance = @ - rd.value]
        ELSE entry_cache[a]]

\* what the state holds for the accounts: every slot's value, every transient
\* entry, every balance and nonce, and selfdestruct_set
Ledger(c, transient, substate) ==
    [storage |-> [a \in Addresses |-> [k \in Keys |->
                     IF c[a] # NoAccount /\ c[a].storage[k] # NoSlot
                     THEN c[a].storage[k].current_value
                     ELSE store_get_storage_slot(a, k)]],
     transient |-> transient,
     balance |-> [a \in Addresses |-> get_account(c, a).balance],
     nonce |-> [a \in Addresses |-> get_account(c, a).nonce],
     selfdestruct_set |-> substate.selfdestruct_set]

\* what the handler of a state-changing opcode ends with on the current state
Attempt(op, args) ==
    CASE op = "SSTORE" -> op_sstore(VM, args[1], args[2])
      [] op = "TSTORE" -> op_tstore(VM, args[1], args[2])
      [] op = "CREATE" -> op_create(VM, args[1], args[2])
      [] op = "CREATE2" -> op_create2(VM, args[1], args[2])
      [] op = "SELFDESTRUCT" -> op_selfdestruct(VM, args[1])
      [] op = "CALL" -> op_call(VM, args[1], args[2], args[3], 0, 0)

\* the step runs, in a static frame, SSTORE, TSTORE, CREATE, CREATE2, SELFDESTRUCT
\* or a CALL with a value
StaticWrite ==
    /\ InLoop
    /\ current_call_frame(VM).is_static
    /\ \/ hist'.op \in {"SSTORE", "TSTORE", "CREATE", "CREATE2", "SELFDESTRUCT"}
       \/ hist'.op = "CALL" /\ hist'.args[3] # 0

\* the step fails its frame and the ledger is, when the handler fails and after
\* the step, what it was before
FailsUnchanged ==
    LET r == Attempt(hist'.op, hist'.args)
    IN  /\ r.res = "Err"
        /\ hist'.exited # NoExit
        /\ hist'.popped.result = "Revert"
        /\ Ledger(r.vm.cache, r.vm.transient_storage, r.vm.accrued_substate)
               = Ledger(cache, transient_storage, accrued_substate)
        /\ Ledger(cache', transient_storage', accrued_substate')
               = Ledger(cache, transient_storage, accrued_substate)

\* C1, as the code has it: when a frame ends with REVERT or an exceptional halt,
\* refunded_gas and transient_storage equal their values at the frame's entry; for
\* the depth-0 frame so do the cache and the substate; for a deeper frame the
\* substate equals the entry's, less the frame's address in created_accounts when
\* the frame is a create, and the cache equals the entry's with the value transfer
\* given back (a failed create's account is dropped from the cache).
RevertRestoresEntryState ==
    [][FailedExit =>
        LET F == current_call_frame(VM)
            e == EntryOfCurrent
        IN  /\ refunded_gas' = e.refunded_gas
            /\ transient_storage' = e.transient_storage
            /\ accrued_substate' =
                   IF F.depth > 0 /\ return_data[Len(return_data)].is_create
                   THEN [e.substate EXCEPT !.created_accounts = @ \ {F.to}]
                   ELSE e.substate
            /\ cache' = IF F.depth = 0 THEN e.cache
                        ELSE CacheAfterFailure(e.cache, return_data[Len(return_data)])
      ]_vars

\* a frame of depth > 0 that had changed the state, with a nested frame that had
\* returned successfully, has ended in failure
RevertRestoresEntryStateWitness ==
    /\ hist.exited # NoExit
    /\ hist.popped.result = "Revert"
    /\ hist.exited.depth > 0
    /\ hist.exited.dirty
    /\ hist.exited.nested
    /\ phase = "running"

\* C1 as stated: after a frame ends in failure the cache, the substate,
\* refunded_gas and transient_storage equal their values at the frame's entry
RevertRestoresEntryVerbatim ==
    [][FailedExit =>
        [cache |-> cache', substate |-> accrued_substate',
         refunded_gas |-> refunded_gas', transient_storage |-> transient_storage']
            = EntryOfCurrent
      ]_vars

\* C2: while run_execution loops there are as many StateBackups as open frames and
\* one RetData fewer; a step that enters a child pushes one frame, one RetData and
\* one StateBackup; a step that ends a frame of depth > 0 pops one of each; any
\* other step leaves the three lengths alone; when run_execution has returned,
\* call_frames holds the initial frame only and return_data is empty.
StacksParallel ==
    /\ [](phase = "running" =>
            /\ Len(backups) = Len(call_frames)
            /\ Len(return_data) = Len(call_frames) - 1)
    /\ [](phase = "returned" =>
            /\ Len(call_frames) = 1
            /\ call_frames[1].depth = 0
            /\ return_data = <<>>)
    /\ [][(phase = "running" /\ phase' # "error") =>
            LET d == Len(call_frames') - Len(call_frames)
                ended == hist'.exited # NoExit /\ current_call_frame(VM).depth > 0
            IN  /\ d = (IF ended THEN -1
                        ELSE IF hist'.exited # NoExit THEN 0
                        ELSE IF Len(call_frames') > Len(call_frames) THEN 1 ELSE 0)
                /\ Len(return_data') - Len(return_data) = d
                /\ Len(backups') - Len(backups)
                       = (IF hist'.exited # NoExit /\ ~ended THEN -1 ELSE d)
                /\ d = 1 => hist'.op \in {"CALL", "CALLCODE", "DELEGATECALL",
                                          "STATICCALL", "CREATE", "CREATE2"}
         ]_vars

\* a frame of depth 2 has ended and its parent goes on
StacksParallelWitness ==
    /\ phase = "running"
    /\ hist.exited # NoExit
    /\ hist.exited.depth = 2
    /\ Len(call_frames) = 2

\* C3: a non-Internal error in a frame of depth > 0 leaves run_execution running:
\* the frame is popped, 0 is pushed on the parent's stack, the parent's pc moves to
\* the next instruction and the frames below are untouched; run_execution returns
\* a report only on a step that ends the depth-0 frame.
InnerErrorsResumeParent ==
    [][/\ (/\ hist'.exited # NoExit
           /\ hist'.err # NoError
           /\ ~is_internal(hist'.err)
           /\ current_call_frame(VM).depth > 0)
          => LET n == Len(call_frames) - 1
             IN  /\ phase' = "running"
                 /\ report' = report
                 /\ Len(call_frames') = n
                 /\ call_frames'[n].stack = Append(call_frames[n].stack, 0)
                 /\ call_frames'[n].pc = call_frames[n].pc + 1
                 /\ \A i \in 1..(n - 1) : call_frames'[i] = call_frames[i]
       /\ (phase = "running" /\ phase' = "returned")
          => /\ hist'.exited # NoExit
             /\ current_call_frame(VM).depth = 0
             /\ report' = hist'.popped
      ]_vars

\* a frame of depth > 0 has halted exceptionally and its parent, with 0 on its
\* stack, goes on
InnerErrorsResumeParentWitness ==
    /\ hist.exited # NoExit
    /\ hist.exited.depth > 0
    /\ hist.err \notin {NoError, "RevertOpcode"}
    /\ phase = "running"
    /\ current_call_frame(VM).stack # <<>>
    /\ current_call_frame(VM).stack[Len(current_call_frame(VM).stack)] = 0

\* C4: when the frame a value-bearing CALL entered ends in failure, the balances
\* of its caller and of its callee are what they were before the CALL; a
\* DELEGATECALL changes no balance, and when the frame it entered ends in failure
\* every balance is what it was before the DELEGATECALL.
FailedCallRestoresBalances ==
    [][/\ (/\ FailedExit
           /\ current_call_frame(VM).depth > 0
           /\ EnteredBy = "CALL"
           /\ current_call_frame(VM).msg_value > 0)
          => LET F == current_call_frame(VM)
             IN  /\ Balance(cache', F.msg_sender) = Balance(BeforeCurrent.cache, F.msg_sender)
                 /\ Balance(cache', F.to) = Balance(BeforeCurrent.cache, F.to)
       /\ (hist'.op = "DELEGATECALL" /\ hist'.exited = NoExit /\ phase' # "error")
          => \A a \in Addresses : Balance(cache', a) = Balance(cache, a)
       /\ (/\ FailedExit
           /\ current_call_frame(VM).depth > 0
           /\ EnteredBy = "DELEGATECALL")
          => \A a \in Addresses : Balance(cache', a) = Balance(BeforeCurrent.cache, a)
      ]_vars

\* a frame entered by a value-bearing CALL of an account to itself has failed
FailedCallRestoresBalancesWitness ==
    /\ hist.exited # NoExit
    /\ hist.popped.result = "Revert"
    /\ hist.exited.by = "CALL"
    /\ hist.exited.msg_value > 0
    /\ hist.exited.msg_sender = hist.exited.to
    /\ phase = "running"

\* C5: when a child frame halts exceptionally the parent's gas_used is what it was
\* (nothing of the forwarded gas comes back) and its sub_return_data is empty; when
\* the child ends with REVERT the parent's gas_used drops by the child's gas_limit
\* less the child's gas_used, and its sub_return_data is the revert payload.
ChildFailureGasAndData ==
    [][(/\ FailedExit
        /\ hist'.err # NoError
        /\ current_call_frame(VM).depth > 0)
       => LET n == Len(call_frames) - 1
              child == current_call_frame(VM)
          IN  IF hist'.err = "RevertOpcode"
              THEN /\ call_frames'[n].gas_used
                          = call_frames[n].gas_used
                            - (child.gas_limit - hist'.popped.gas_used)
                   /\ hist'.popped.gas_used = child.gas_used
                   /\ call_frames'[n].sub_return_data = hist'.args[1]
              ELSE /\ call_frames'[n].gas_used = call_frames[n].gas_used
                   /\ call_frames'[n].sub_return_data = <<>>
      ]_vars

\* a child has ended with REVERT, with gas left and a payload
ChildFailureGasAndDataWitness ==
    /\ hist.exited # NoExit
    /\ hist.exited.depth > 0
    /\ hist.err = "RevertOpcode"
    /\ hist.exited.gas_limit > hist.popped.gas_used
    /\ phase = "running"
    /\ current_call_frame(VM).sub_return_data # <<>>

\* C6: in every reachable state every call frame has 0 <= gas_used <= gas_limit.
GasWithinLimit ==
    \A i \in DOMAIN call_frames :
        /\ 0 <= call_frames[i].gas_used
        /\ call_frames[i].gas_used <= call_frames[i].gas_limit

\* the child of a value-bearing CALL that forwarded the stipend only has ended
\* with gas left, which went back to the parent
GasWithinLimitWitness ==
    /\ hist.exited # NoExit
    /\ hist.exited.by = "CALL"
    /\ hist.exited.msg_value > 0
    /\ hist.exited.gas_limit = CALL_POSITIVE_VALUE_STIPEND
    /\ hist.popped.gas_used < hist.exited.gas_limit
    /\ phase = "running"

\* the opcodes of the CALL and CREATE families
EnteringOpcodes == {"CALL", "CALLCODE", "DELEGATECALL", "STATICCALL", "CREATE", "CREATE2"}

\* C7: every open frame has the depth of its place in the stack, and none a depth
\* above 1024; a CALL-family or CREATE-family opcode that goes through in a frame
\* of depth 1024 pushes no frame, no RetData and no StateBackup, pushes 0 on the
\* frame's stack, leaves charged no more than the opcode's own fees (the gas
\* reserved for the child is handed back) and execution goes on in the same frame
\* at the next instruction.
DepthLimit ==
    /\ [](\A i \in DOMAIN call_frames :
             call_frames[i].depth = i - 1 /\ call_frames[i].depth <= CALL_DEPTH_LIMIT)
    /\ [][(/\ phase = "running"
           /\ current_call_frame(VM).depth = CALL_DEPTH_LIMIT
           /\ hist'.op \in EnteringOpcodes
           /\ hist'.exited = NoExit)
          => LET n == Len(call_frames)
                 F == call_frames[n]
                 G == call_frames'[n]
             IN  /\ phase' = "running"
                 /\ Len(call_frames') = n
                 /\ return_data' = return_data
                 /\ backups' = backups
                 /\ \A i \in 1..(n - 1) : call_frames'[i] = call_frames[i]
                 /\ G.stack = Append(F.stack, 0)
                 /\ G.pc = F.pc + 1
                 /\ G.gas_used >= 0
                 /\ G.gas_used - F.gas_used
                        <= IF hist'.op \in {"CREATE", "CREATE2"}
                           THEN gas_cost_create(hist'.args[2], hist'.op = "CREATE2", fork)
                           ELSE COLD_ADDRESS_ACCESS_COST + CALL_POSITIVE_VALUE
                                + CALL_TO_EMPTY_ACCOUNT
         ]_vars

\* a CREATE has gone through in a frame of depth 1024, which goes on with 0 on its
\* stack
DepthLimitWitness ==
    /\ phase = "running"
    /\ Len(call_frames) = CALL_DEPTH_LIMIT + 1
    /\ current_call_frame(VM).depth = CALL_DEPTH_LIMIT
    /\ hist.op = "CREATE"
    /\ hist.exited = NoExit
    /\ current_call_frame(VM).stack = <<0>>

\* C8, as the code has it: a step that ends a frame in failure puts
\* touched_accounts back to what it was at that frame's entry; every other step
\* only adds to touched_accounts.
TouchedShrinksOnlyOnFailure ==
    [][IF FailedExit
       THEN accrued_substate'.touched_accounts = EntryOfCurrent.substate.touched_accounts
       ELSE accrued_substate.touched_accounts \subseteq accrued_substate'.touched_accounts
      ]_vars

\* a frame that had touched an account has ended in failure and the account is
\* touched no more
TouchedShrinksOnlyOnFailureWitness ==
    /\ hist.exited # NoExit
    /\ hist.popped.result = "Revert"
    /\ ~(hist.exited.touched \subseteq accrued_substate.touched_accounts)

\* C8 as stated: touched_accounts only grows from each state to the next
TouchedOnlyGrows ==
    [][accrued_substate.touched_accounts \subseteq accrued_substate'.touched_accounts]_vars

\* C9: every slot the cache holds has the original_value the slot had at the
\* start of the transaction, in every reachable state (so it never changes).
OriginalValueFixed ==
    \A a \in Addresses, k \in Keys :
        (cache[a] # NoAccount /\ cache[a].storage[k] # NoSlot)
            => cache[a].storage[k].original_value = hist.start[a][k]

\* a written slot, its current value away from its original one, after a nested
\* frame has ended in failure
OriginalValueFixedWitness ==
    /\ hist.exited # NoExit
    /\ hist.popped.result = "Revert"
    /\ \E a \in Addresses, k \in Keys :
           /\ cache[a] # NoAccount /\ cache[a].storage[k] # NoSlot
           /\ cache[a].storage[k].current_value # cache[a].storage[k].original_value

\* the last two steps were SSTOREs of one frame to one slot, the second of the
\* value the slot had at the start of the transaction, on Berlin or later
SstoreBack ==
    /\ hist.sstore # NoSstore
    /\ hist.sstore.prev # NoSstore
    /\ ForkGE(fork, "Berlin")
    /\ hist.sstore.prev.address = hist.sstore.address
    /\ hist.sstore.prev.key = hist.sstore.key
    /\ hist.sstore.value = hist.start[hist.sstore.address][hist.sstore.key]

\* C10, as the code has it: on Berlin and later, for a slot whose current value is
\* its original one, SSTORE(k, v) followed by SSTORE(k, original) leaves the
\* current value equal to original and the refund counter higher than before the
\* two writes by 0 if v = original, else by 19900 if original = 0 and by 2800 if
\* original # 0.
SstoreBackRefund ==
    (SstoreBack /\ hist.sstore.prev.slot.current_value = hist.sstore.prev.slot.original_value)
    => LET w == hist.sstore
           original == hist.start[w.address][w.key]
       IN  /\ cache[w.address].storage[w.key].current_value = original
           /\ refunded_gas = w.prev.refunded_gas
                             + (IF w.prev.value = original THEN 0
                                ELSE IF original = 0 THEN 19900 ELSE 2800)

\* a clean slot has been written with another value and then with its original one
SstoreBackRefundWitness ==
    /\ SstoreBack
    /\ hist.sstore.prev.slot.current_value = hist.sstore.prev.slot.original_value
    /\ hist.sstore.prev.value # hist.sstore.value

\* C10 as stated: SSTORE(k, v) followed by SSTORE(k, original) leaves the current
\* value equal to original and the refund counter where it was before the writes
SstoreBackNetRefundZero ==
    SstoreBack
    => /\ cache[hist.sstore.address].storage[hist.sstore.key].current_value
              = hist.start[hist.sstore.address][hist.sstore.key]
       /\ refunded_gas = hist.sstore.prev.refunded_gas

\* C11: on every fork and for every (original, current, new), an SSTORE that goes
\* through changes the refund counter by the net-metering amount: with
\* (remove_slot, restore_empty, restore_slot) = (15000, 19800, 4800) on
\* Constantinople, (15000, 19200, 4200) from Istanbul up to Berlin, (4800, 19900,
\* 2800) from Berlin on, nothing when new = current; else, for a clean slot,
\* remove_slot when original # 0 and new = 0; else, for a dirty slot, less
\* remove_slot when original # 0 and current = 0, plus remove_slot when
\* original # 0 and new = 0, plus restore_empty or restore_slot when new =
\* original (= 0 or # 0); on the other forks before Istanbul 15000 exactly when
\* current # 0 and new = 0.  Writing the value held changes nothing; on Berlin and
\* later a slot with original = current = 0 written to 1 adds nothing and, then
\* written to 0, adds 19900.
SstoreRefundRule ==
    hist.sstore # NoSstore =>
        LET original == hist.sstore.slot.original_value
            current == hist.sstore.slot.current_value
            new == hist.sstore.value
            delta == refunded_gas - hist.sstore.refunded_gas
            schedule == IF fork = "Constantinople" THEN <<15000, 19800, 4800>>
                        ELSE IF fork = "Istanbul" THEN <<15000, 19200, 4200>>
                        ELSE <<4800, 19900, 2800>>
            metered == fork \notin {"Frontier", "Homestead", "Tangerine",
                                    "SpuriousDragon", "Byzantium"}
            removed == IF original # 0 /\ current # 0 /\ new = 0 THEN schedule[1] ELSE 0
            revived == IF original # 0 /\ current = 0 /\ new # 0 THEN schedule[1] ELSE 0
            restored == IF current # original /\ new = original
                        THEN (IF original = 0 THEN schedule[2] ELSE schedule[3])
                        ELSE 0
        IN  /\ metered /\ new # current => delta = removed - revived + restored
            /\ ~metered => delta = (IF current # 0 /\ new = 0 THEN 15000 ELSE 0)
            /\ new = current => delta = 0
            /\ (ForkGE(fork, "Berlin") /\ original = 0 /\ current = 0 /\ new = 1)
                   => delta = 0
            /\ (ForkGE(fork, "Berlin") /\ original = 0 /\ current = 1 /\ new = 0)
                   => delta = 19900

\* before Berlin a slot that held 1 at the start and was emptied has been written
\* with a third value, which takes the removal refund back
SstoreRefundRuleWitness ==
    /\ hist.sstore # NoSstore
    /\ ~ForkGE(fork, "Berlin") /\ ForkGE(fork, "Constantinople")
    /\ hist.sstore.slot.original_value = 1
    /\ hist.sstore.slot.current_value = 0
    /\ hist.sstore.value = 2
    /\ refunded_gas = hist.sstore.refunded_gas - 15000

\* C12: in every state a transaction reaches by SSTOREs, SELFDESTRUCTs, nested
\* calls and reverts the refund counter is at least 0, and no SSTORE the running
\* frame can execute next finds the counter below the amount it takes back (the
\* slot's original value not 0, its current value 0): GasRefundsUnderflow is
\* never raised.
RefundNeverUnderflows ==
    /\ refunded_gas >= 0
    /\ hist.err # "GasRefundsUnderflow"
    /\ InLoop =>
          \A key \in Keys, value \in WrittenValues :
              sstore_refund(refunded_gas,
                            access_storage_slot(VM, current_call_frame(VM).to, key).slot,
                            value, fork).ok

\* a slot that held 1 at the start was emptied, and a frame nested in the one that
\* emptied it has written 2 to it, which took the whole counter back
RefundNeverUnderflowsWitness ==
    /\ hist.sstore # NoSstore
    /\ Len(call_frames) = 2
    /\ hist.sstore.slot.original_value = 1
    /\ hist.sstore.slot.current_value = 0
    /\ hist.sstore.value = 2
    /\ hist.sstore.refunded_gas > 0
    /\ refunded_gas = 0

ChildContext ==
    [][(InLoop /\ Len(call_frames') = Len(call_frames) + 1
            /\ hist'.op \in {"CALL", "CALLCODE", "DELEGATECALL", "STATICCALL"}) =>
        LET parent == current_call_frame(VM)
            child == call_frames'[Len(call_frames')]
            a == hist'.args
        IN  /\ child.depth = parent.depth + 1
            /\ child.gas_used = 0
            /\ hist'.op = "CALL" =>
                  /\ child.msg_sender = parent.to /\ child.to = a[2]
                  /\ child.msg_value = a[3] /\ child.is_static = parent.is_static
            /\ hist'.op = "CALLCODE" =>
                  /\ child.msg_sender = parent.to /\ child.to = parent.to
                  /\ child.msg_value = a[3] /\ child.is_static = parent.is_static
            /\ hist'.op = "DELEGATECALL" =>
                  /\ child.msg_sender = parent.msg_sender /\ child.to = parent.to
                  /\ child.msg_value = parent.msg_value
                  /\ child.is_static = parent.is_static
                  /\ \A x \in Addresses : Balance(cache', x) = Balance(cache, x)
            /\ hist'.op = "STATICCALL" =>
                  /\ child.msg_sender = parent.to /\ child.to = a[2]
                  /\ child.msg_value = 0 /\ child.is_static
      ]_vars

\* a frame entered by a CALL with a value has made a DELEGATECALL: the frame it
\* pushed has the caller and the value of the frame that made it
ChildContextWitness ==
    /\ phase = "running"
    /\ Len(call_frames) = 3
    /\ hist.op = "DELEGATECALL"
    /\ call_frames[2].msg_value = 1
    /\ call_frames[3].msg_value = 1
    /\ call_frames[3].msg_sender = call_frames[2].msg_sender
    /\ call_frames[3].msg_sender # call_frames[2].to
    /\ call_frames[3].to = call_frames[2].to
    /\ call_frames[3].depth = 2

\* C15: on Cancun and later a SELFDESTRUCT that goes through ends its frame; run
\* by a contract that is not in created_accounts it moves the contract's whole
\* balance to the beneficiary (the balance stays when the beneficiary is the
\* contract) and leaves selfdestruct_set as it was; run by a contract that is in
\* created_accounts it leaves the contract with a balance of 0, the beneficiary,
\* if another account, with the balance added, and adds the contract to
\* selfdestruct_set.  No other balance changes.
CancunSelfdestruct ==
    [][(InLoop /\ ForkGE(fork, "Cancun") /\ hist'.op = "SELFDESTRUCT"
            /\ hist'.err = NoError) =>
        LET f == current_call_frame(VM)
            target == hist'.args[1]
            own == Balance(cache, f.to)
            created == f.to \in accrued_substate.created_accounts
        IN  /\ hist'.exited # NoExit
            /\ hist'.popped.result = "Success"
            /\ Len(call_frames') = Len(call_frames) - 1 \/ phase' = "returned"
            /\ \A x \in Addresses \ {f.to, target} : Balance(cache', x) = Balance(cache, x)
            /\ target # f.to => Balance(cache', target) = Balance(cache, target) + own
            /\ ~created =>
                  /\ accrued_substate'.selfdestruct_set = accrued_substate.selfdestruct_set
                  /\ Balance(cache', f.to) = IF target = f.to THEN own ELSE 0
            /\ created =>
                  /\ accrued_substate'.selfdestruct_set
                         = accrued_substate.selfdestruct_set \cup {f.to}
                  /\ Balance(cache', f.to) = 0
      ]_vars

\* on Cancun a contract created in the transaction, holding 1, has destroyed
\* itself in favour of another account: it is in selfdestruct_set and holds 0
CancunSelfdestructWitness ==
    /\ ForkGE(fork, "Cancun")
    /\ hist.op = "SELFDESTRUCT"
    /\ hist.err = NoError
    /\ hist.exited # NoExit
    /\ hist.exited.is_create
    /\ hist.exited.msg_value = 1
    /\ hist.exited.to \in accrued_substate.selfdestruct_set
    /\ Balance(cache, hist.exited.to) = 0
    /\ hist.args[1] # hist.exited.to

CreateOnOccupied ==
    [][LET f == current_call_frame(VM)
           deployer == get_account(cache, f.to)
           new_address == calculate_create_address(f.to, deployer.nonce)
           occupant == get_account(cache, new_address)
           cost == gas_cost_create(hist'.args[2], hist'.op = "CREATE2", fork)
           reserved == max_message_call_gas(increase_consumed_gas(f, cost))
       IN  (/\ InLoop /\ hist'.op \in {"CREATE", "CREATE2"} /\ hist'.err = NoError
            /\ ~f.is_static
            /\ deployer.balance >= hist'.args[1]
            /\ f.depth + 1 <= CALL_DEPTH_LIMIT
            /\ deployer.nonce # U64_MAX
            /\ (occupant.nonce # 0 \/ Len(occupant.code) > 0))
           => /\ phase' = "running"
              /\ Len(call_frames') = Len(call_frames)
              /\ Len(return_data') = Len(return_data)
              /\ Len(backups') = Len(backups)
              /\ current_call_frame(VM)' =
                     [f EXCEPT !.stack = Append(@, 0),
                               !.gas_used = f.gas_used + cost + reserved,
                               !.pc = @ + 1,
                               !.sub_return_data = <<>>]
              /\ get_account(cache', f.to) = [deployer EXCEPT !.nonce = @ + 1]
              /\ get_account(cache', new_address) = occupant
      ]_vars

\* a CREATE with a value has found the new address occupied: its frame goes on
\* with 0 on its stack and the reserved gas spent, the deployer's nonce is 2 and its balance
\* the 1 it had
CreateOnOccupiedWitness ==
    /\ phase = "running"
    /\ hist.op = "CREATE"
    /\ hist.args[1] = 1
    /\ hist.err = NoError
    /\ hist.exited = NoExit
    /\ Len(call_frames) = 1
    /\ current_call_frame(VM).stack = <<0>>
    /\ current_call_frame(VM).gas_used > TX_BASE_COST + CREATE_BASE_COST + 100000
    /\ get_account(cache, Addr.A).nonce = 2
    /\ get_account(cache, Addr.A).balance = 1
    /\ get_account(cache, Addr.new).nonce = 1

\* C18: a CREATE or CREATE2 that reaches the checks of the deployer (the frame is
\* not static and pays the opcode's cost) and finds the deployer's balance below
\* the value, or the depth of the new frame above 1024, or the deployer's nonce at
\* the highest value, pushes 0 and goes on at the next instruction of its frame,
\* whose gas_used is what it was plus the opcode's cost (the gas reserved for the
\* subcall is handed back whole); no nonce and no balance changes; no frame,
\* RetData or StateBackup is pushed.
CreateEarlyExit ==
    [][LET f == current_call_frame(VM)
           deployer == get_account(cache, f.to)
           cost == gas_cost_create(hist'.args[2], hist'.op = "CREATE2", fork)
       IN  (/\ InLoop /\ hist'.op \in {"CREATE", "CREATE2"} /\ hist'.err = NoError
            /\ ~f.is_static
            /\ \/ deployer.balance < hist'.args[1]
               \/ f.depth + 1 > CALL_DEPTH_LIMIT
               \/ deployer.nonce = U64_MAX)
           => /\ phase' = "running"
              /\ Len(call_frames') = Len(call_frames)
              /\ Len(return_data') = Len(return_data)
              /\ Len(backups') = Len(backups)
              /\ current_call_frame(VM)' =
                     [f EXCEPT !.stack = Append(@, 0),
                               !.gas_used = f.gas_used + cost,
                               !.pc = @ + 1,
                               !.sub_return_data = <<>>]
              /\ \A x \in Addresses :
                    /\ Balance(cache', x) = Balance(cache, x)
                    /\ get_account(cache', x).nonce = get_account(cache, x).nonce
      ]_vars

\* a deployer with the highest nonce and the value in hand has run CREATE: its
\* frame goes on with 0 on its stack, having paid the opcode's cost only
CreateEarlyExitWitness ==
    /\ phase = "running"
    /\ hist.op = "CREATE"
    /\ hist.args[1] = 1
    /\ hist.err = NoError
    /\ Len(call_frames) = 1
    /\ get_account(cache, Addr.A).nonce = U64_MAX
    /\ get_account(cache, Addr.A).balance = 1
    /\ current_call_frame(VM).stack = <<0>>
    /\ current_call_frame(VM).gas_used
           = TX_BASE_COST + gas_cost_create(hist.args[2], FALSE, fork)

\* C19: when a frame entered by a CALL ends with RETURN(data), the caller's
\* sub_return_data is data; a RETURNDATASIZE pushes the length of the frame's
\* sub_return_data; a RETURNDATACOPY(0, 0, that length) leaves the bytes of
\* sub_return_data in memory[0..length); and a CALL or CREATE that gets past its
\* own charges leaves the frame that ran it with an empty sub_return_data.
ReturnDataRoundTrip ==
    [][LET f == current_call_frame(VM)
           g == current_call_frame(VM)'
           n == Len(call_frames)
           went == InLoop /\ hist'.err = NoError
       IN  /\ (went /\ hist'.op = "RETURN" /\ n > 1 /\ EnteredBy = "CALL") =>
                  /\ Len(call_frames') = n - 1
                  /\ g.sub_return_data = hist'.args[1]
                  /\ g.stack = Append(call_frames[n - 1].stack, 1)
           /\ (went /\ hist'.op = "RETURNDATASIZE") =>
                  g.stack = Append(f.stack, Len(f.sub_return_data))
           /\ (went /\ hist'.op = "RETURNDATACOPY"
                    /\ hist'.args = <<0, 0, Len(f.sub_return_data)>>) =>
                  /\ SubSeq(g.memory, 1, Len(f.sub_return_data)) = f.sub_return_data
                  /\ g.sub_return_data = f.sub_return_data
           /\ (went /\ hist'.op \in {"CALL", "CREATE"}) =>
                  call_frames'[n].sub_return_data = <<>>
      ]_vars

\* a caller holds the three bytes its callee returned and has copied them to its
\* memory with RETURNDATACOPY(0, 0, 3)
ReturnDataRoundTripWitness ==
    /\ phase = "running"
    /\ hist.op = "RETURNDATACOPY"
    /\ hist.args = <<0, 0, 3>>
    /\ hist.err = NoError
    /\ current_call_frame(VM).sub_return_data = <<2, 0, 1>>
    /\ SubSeq(current_call_frame(VM).memory, 1, 3) = <<2, 0, 1>>
    /\ Len(current_call_frame(VM).memory) = 32

TransientShared ==
    [][InLoop =>
        LET f == current_call_frame(VM)
            went == hist'.err = NoError
            k == hist'.args[1]
            entry == transient_storage[<<f.to, k>>]
            g == current_call_frame(VM)'
        IN  /\ (hist'.op = "TSTORE" /\ went) =>
                   transient_storage' =
                       [transient_storage EXCEPT ![<<f.to, k>>] = [value |-> hist'.args[2]]]
            /\ (hist'.op = "TLOAD" /\ went) =>
                   /\ g.stack = Append(f.stack, IF entry = NoSlot THEN 0 ELSE entry.value)
                   /\ transient_storage' = transient_storage
            /\ (hist'.op # "TSTORE" \/ ~went) =>
                   transient_storage' = IF FailedExit \/ phase' = "error"
                                        THEN EntryOfCurrent.transient_storage
                                        ELSE transient_storage
      ]_vars

\* a frame of A entered by a CALL from A has ended in failure after changing the
\* state, and A's entry holds the 1 written before that frame was entered
TransientSharedWitness ==
    /\ phase = "running"
    /\ hist.exited # NoExit
    /\ hist.popped.result = "Revert"
    /\ hist.exited.by = "CALL"
    /\ hist.exited.to = Addr.A
    /\ hist.exited.dirty
    /\ current_call_frame(VM).to = Addr.A
    /\ transient_storage[<<Addr.A, 0>>] = [value |-> 1]
    /\ transient_storage[<<Addr.B, 0>>] = NoSlot

\* C22: every execution ends: run_execution eventually returns a report or an
\* error, whatever the program does at each turn.
Terminates == <>(phase \in {"returned", "error"})

\* the depth-0 frame, after a frame it called had ended, has run out of gas on a
\* JUMP and the report is out
TerminatesWitness ==
    /\ phase = "returned"
    /\ hist.op = "JUMP"
    /\ hist.err = "OutOfGas"
    /\ report.result = "Revert"
    /\ Len(current_call_frame(VM).stack) > 0
    /\ current_call_frame(VM).gas_limit = TX_BASE_COST + 120

\* C23: after VM::new the touched accounts hold the origin, the coinbase from
\* Shanghai on, the fork's precompiles, the recipient or the new contract's
\* address and every address of the access list, and every key of every entry of
\* the access list is in touched_storage_slots of the entry's address.
WarmAfterNew ==
    phase = "new" =>
        LET warm == accrued_substate.touched_accounts
            slots == accrued_substate.touched_storage_slots
        IN  /\ Addr.origin \in warm
            /\ ForkGE(fork, "Shanghai") => Coinbase \in warm
            /\ \A a \in Addresses : is_precompile(a, fork) => a \in warm
            /\ current_call_frame(VM).to \in warm
            /\ \A i \in DOMAIN access_list :
                   /\ access_list[i][1] \in warm
                   /\ \A j \in DOMAIN access_list[i][2] :
                          access_list[i][2][j] \in slots[access_list[i][1]]

\* C24: a CALL, CALLCODE, DELEGATECALL or STATICCALL never raises an Internal error
\* and never aborts the transaction; when it cannot pay its charges it fails with
\* OutOfGas, the frame that ran it ends with a Revert report, and its caller, if
\* it has one, goes on.
CallsRunOutOfGas ==
    [][(InLoop /\ hist'.op \in {"CALL", "CALLCODE", "DELEGATECALL", "STATICCALL"}) =>
          /\ hist'.err # "Internal"
          /\ phase' # "error"
          /\ hist'.err = "OutOfGas" =>
                 /\ hist'.popped.result = "Revert"
                 /\ Len(call_frames') = (IF Len(call_frames) > 1 THEN Len(call_frames) - 1
                                         ELSE 1)
                 /\ phase' = (IF Len(call_frames) > 1 THEN "running" ELSE "returned")
      ]_vars

\* C25: when stateless_execute has returned, with a report or with the error
\* execute returned, db.cache is what it was when stateless_execute was called.
StatelessLeavesCache == phase \in {"restored", "error"} => cache = cache_backup

\* C26: when the guest program has committed, block validation, the initial state
\* check, verify_db, block execution, gas-used validation, the trie update and the
\* final state check have succeeded, in this order; it commits once, and the
\* committed hashes are parent_block_header.state_root and
\* block.header.state_root; a program that panicked has committed nothing.
GuestCommitsChecked ==
    /\ guest.pc = "panicked" => guest.committed = <<>>
    /\ (guest.pc # "none" /\ guest.committed # <<>>) =>
          /\ guest.pc = "done"
          /\ guest.passed = <<"validate_block", "initial_state", "verify_db",
                              "execute_block", "validate_gas_used", "update_tries",
                              "final_state">>
          /\ guest.committed = <<[initial_state_hash |-> guest.parent_state_root,
                                  final_state_hash |-> guest.state_root]>>
    /\ guest.pc = "done" => guest.committed # <<>>

\* the program has committed the roots of a block that changed the state and
\* used 21000 gas
GuestCommitsCheckedWitness ==
    /\ guest.pc = "done"
    /\ guest.committed = <<[initial_state_hash |-> 1, final_state_hash |-> 2]>>
    /\ guest.written = <<21000>>

\* C27: a CALL or CALLCODE that passes its charges while the balance of the sender
\* (the current contract) is below the value pushes 0, takes the gas reserved for the
\* child (the forwarded gas and the stipend) off gas_used, advances pc by 1, moves no
\* value and pushes no frame, RetData or StateBackup; a DELEGATECALL enters its child
\* whatever the balance of its sender, and moves no value.
CallBelowBalance ==
    [][ InLoop =>
          LET f == current_call_frame(VM)
              n == Len(call_frames)
              a == hist'.args
          IN  /\ ( /\ hist'.op \in {"CALL", "CALLCODE"}
                   /\ ~(hist'.op = "CALL" /\ f.is_static /\ a[3] # 0)
                   /\ call_charges(VM, a[1], a[2], a[3], hist'.op = "CALL", 0).error = NoError
                   /\ Balance(cache, f.to) < a[3] ) =>
                     LET c == call_charges(VM, a[1], a[2], a[3], hist'.op = "CALL", 0)
                         charged == current_call_frame(c.vm).gas_used
                     IN  /\ hist'.err = NoError
                         /\ phase' = "running"
                         /\ Len(call_frames') = n
                         /\ \A i \in 1..(n - 1) : call_frames'[i] = call_frames[i]
                         /\ call_frames'[n].stack = Append(f.stack, 0)
                         /\ c.gas_limit >= CALL_POSITIVE_VALUE_STIPEND
                         /\ call_frames'[n].gas_used = charged - c.gas_limit
                         /\ call_frames'[n].pc = f.pc + 1
                         /\ return_data' = return_data
                         /\ backups' = backups
                         /\ \A x \in Addresses : Balance(cache', x) = Balance(cache, x)
              /\ ( /\ hist'.op = "DELEGATECALL"
                   /\ call_charges(VM, a[1], a[2], 0, FALSE, 0).error = NoError
                   /\ Balance(cache, f.msg_sender) < f.msg_value ) =>
                     /\ hist'.err = NoError
                     /\ Len(call_frames') = n + 1
                     /\ call_frames'[n + 1].msg_value = f.msg_value
                     /\ call_frames'[n + 1].msg_sender = f.msg_sender
                     /\ Len(return_data') = Len(return_data) + 1
                     /\ Len(backups') = Len(backups) + 1
                     /\ \A x \in Addresses : Balance(cache', x) = Balance(cache, x)
      ]_vars

\* the initialization code of a create transaction, its account holding nothing, has
\* called B with a value of 1 and 100000 gas and goes on with 0 on its stack
CallBelowBalanceWitness ==
    /\ phase = "running"
    /\ tx_kind = "Create"
    /\ hist.op = "CALLCODE"
    /\ hist.args = <<100000, Addr.B, 1>>
    /\ hist.err = NoError
    /\ Len(call_frames) = 1
    /\ call_frames[1].stack = <<0>>
    /\ call_frames[1].pc = 1
    /\ Balance(cache, Addr.new) = 0
    /\ return_data = <<>>

\* C28: a CREATE or CREATE2 that passes every check (a frame that is not static, gas
\* for the charge, a deployer with the value and a nonce below the maximum, a depth
\* within the limit, a new address without code or nonce) inserts the new account
\* with the value plus the balance the address held, nonce 1 from Spurious Dragon
\* and 0 before, no code and no storage; takes the value off the deployer's balance
\* and adds 1 to its nonce; adds the new address to created_accounts and
\* touched_accounts; and pushes a child frame that is not static, with msg_sender
\* the deployer, to and code_address the new address, no calldata, the
\* initialization code as bytecode, the reserved gas as gas_limit and the parent's
\* depth plus 1.
CreateEffects ==
    [][ (InLoop /\ hist'.op \in {"CREATE", "CREATE2"}) =>
          LET f == current_call_frame(VM)
              n == Len(call_frames)
              value == hist'.args[1]
              code == hist'.args[2]
              cost == gas_cost_create(code, hist'.op = "CREATE2", fork)
              deployer == get_account(cache, f.to)
              new_address == calculate_create_address(f.to, deployer.nonce)
              held == get_account(cache, new_address)
          IN  ( /\ hist'.op = "CREATE2" => ForkGE(fork, "Constantinople")
                /\ ~f.is_static
                /\ gas_fits(f, cost)
                /\ ~(Len(code) > INIT_CODE_MAX_SIZE /\ ForkGE(fork, "Shanghai"))
                /\ deployer.balance >= value
                /\ ~depth_limit_reached(f.depth + 1)
                /\ deployer.nonce # U64_MAX
                /\ ~has_code_or_nonce(held) ) =>
                  /\ hist'.err = NoError
                  /\ cache'[new_address] =
                         Account(value + held.balance, <<>>,
                                 IF ForkGE(fork, "SpuriousDragon") THEN 1 ELSE 0,
                                 EmptyStorage)
                  /\ get_account(cache', f.to).balance = deployer.balance - value
                  /\ get_account(cache', f.to).nonce = deployer.nonce + 1
                  /\ new_address \in accrued_substate'.created_accounts
                  /\ new_address \in accrued_substate'.touched_accounts
                  /\ Len(call_frames') = n + 1
                  /\ call_frames'[n + 1] =
                         CallFrame(f.to, new_address, new_address, code, value, <<>>,
                                   FALSE, f.gas_limit - f.gas_used - cost, 0,
                                   f.depth + 1, TRUE)
      ]_vars

\* before Spurious Dragon a contract with 1 wei has created, with that wei, a
\* contract at an address that held 2: the new account holds 3 with nonce 0
CreateEffectsWitness ==
    /\ fork = "Tangerine"
    /\ hist.op = "CREATE"
    /\ hist.args = <<1, SomeCode>>
    /\ Len(call_frames) = 2
    /\ call_frames[2].is_create
    /\ cache[Addr.new] = Account(3, <<>>, 0, EmptyStorage)
    /\ Balance(cache, Addr.A) = 0
    /\ Addr.new \in accrued_substate.created_accounts

\* C29: when the frame of a CREATE or CREATE2 ends in a REVERT or an exceptional
\* halt, the deployer's frame goes on with 0 pushed, the deployer holds the balance
\* it held before the CREATE and a nonce one above the one it had, the new address
\* is in created_accounts no more and has no account in the cache, and
\* sub_return_data is the payload of a REVERT and empty after any other failure.
FailedCreate ==
    [][ ( /\ InLoop /\ Len(call_frames) > 1 /\ current_call_frame(VM).is_create
          /\ FailedExit ) =>
          LET f == current_call_frame(VM)
              n == Len(call_frames)
              deployer == f.msg_sender
              before == [VM EXCEPT !.cache = BeforeCurrent.cache]
          IN  /\ EnteredBy \in {"CREATE", "CREATE2"}
              /\ deployer = call_frames[n - 1].to
              /\ phase' = "running"
              /\ Len(call_frames') = n - 1
              /\ call_frames'[n - 1].stack = Append(call_frames[n - 1].stack, 0)
              /\ Balance(cache', deployer) = Balance(before.cache, deployer)
              /\ get_account(cache', deployer).nonce
                     = get_account(before.cache, deployer).nonce + 1
              /\ f.to \notin accrued_substate'.created_accounts
              /\ cache'[f.to] = NoAccount
              /\ call_frames'[n - 1].sub_return_data =
                     (IF hist'.op = "REVERT" /\ ForkGE(fork, "Byzantium")
                      THEN hist'.args[1] ELSE <<>>)
      ]_vars

\* the initialization code of a contract created with 1 wei has reverted with the
\* payload <<1>>: the deployer has its wei again and a nonce of 2
FailedCreateWitness ==
    /\ phase = "running"
    /\ hist.op = "REVERT"
    /\ hist.exited # NoExit
    /\ hist.exited.is_create
    /\ hist.exited.msg_value = 1
    /\ Len(call_frames) = 1
    /\ call_frames[1].stack = <<0>>
    /\ call_frames[1].sub_return_data = <<1>>
    /\ Balance(cache, Addr.A) = 1
    /\ get_account(cache, Addr.A).nonce = 2
    /\ cache[Addr.new] = NoAccount

\* C30: a CALL that enters a child keeps its return range in the RetData; when the
\* child returns successfully with output o, the parent's memory holds the first
\* min(ret_size, len(o)) bytes of o from ret_offset on, every other byte of it is
\* what it was (0 where the memory grew), sub_return_data is o, the parent's logs
\* are its logs followed by the child's, and 1 is pushed; a precompile that
\* succeeds leaves its output the same way; when the frame of a CREATE returns
\* successfully the new address is pushed and sub_return_data stays empty.
RangeReceives(before, after, offset, size, o) ==
    /\ Len(after) >= Len(before)
    /\ \A i \in 1..Len(after) :
          after[i] = (IF i > offset /\ i <= offset + Min(size, Len(o)) THEN o[i - offset]
                      ELSE IF i <= Len(before) THEN before[i] ELSE 0)
    /\ Min(size, Len(o)) > 0 => Len(after) >= offset + Min(size, Len(o))

SuccessfulReturn ==
    [][ (InLoop /\ phase' = "running") =>
          LET f == current_call_frame(VM)
              n == Len(call_frames)
              a == hist'.args
          IN  /\ (hist'.op = "CALL" /\ Len(a) = 5 /\ Len(call_frames') = n + 1) =>
                     /\ return_data'[Len(return_data')].ret_offset = a[4]
                     /\ return_data'[Len(return_data')].ret_size = a[5]
              /\ ( /\ hist'.op = "CALL" /\ Len(a) = 5 /\ is_precompile(a[2], fork)
                   /\ hist'.err = NoError
                   /\ call_frames'[n].stack = Append(f.stack, 1) ) =>
                     /\ RangeReceives(f.memory, call_frames'[n].memory, a[4], a[5],
                                      execute_precompile(f).output)
                     /\ call_frames'[n].sub_return_data = execute_precompile(f).output
                     /\ call_frames'[n].logs = f.logs
              /\ (n > 1 /\ hist'.exited # NoExit /\ hist'.popped.result = "Success") =>
                     LET parent == call_frames[n - 1]
                         after == call_frames'[n - 1]
                         rd == return_data[Len(return_data)]
                         o == IF hist'.op = "RETURN" THEN a[1] ELSE <<>>
                     IN  /\ Len(call_frames') = n - 1
                         /\ after.logs = parent.logs \o f.logs
                         /\ IF f.is_create
                            THEN /\ after.stack = Append(parent.stack, f.to)
                                 /\ after.sub_return_data = <<>>
                                 /\ after.memory = parent.memory
                            ELSE /\ after.stack = Append(parent.stack, 1)
                                 /\ after.sub_return_data = o
                                 /\ RangeReceives(parent.memory, after.memory,
                                                  rd.ret_offset, rd.ret_size, o)
      ]_vars

\* a contract whose memory starts with 96, 0, 7 and that has logged has called B
\* with the return range (1, 5); B has logged and returned 2, 0, 1
SuccessfulReturnWitness ==
    /\ phase = "running"
    /\ hist.op = "RETURN"
    /\ hist.args = << <<2, 0, 1>> >>
    /\ Len(call_frames) = 1
    /\ Len(call_frames[1].memory) = 32
    /\ SubSeq(call_frames[1].memory, 1, 5) = <<96, 2, 0, 1, 0>>
    /\ call_frames[1].sub_return_data = <<2, 0, 1>>
    /\ call_frames[1].logs = << [address |-> Addr.A, data |-> <<5>>],
                                [address |-> Addr.B, data |-> <<5>>] >>
    /\ call_frames[1].stack = <<1>>

ValueSent == IF hist'.op \in {"CALL", "CALLCODE"} THEN hist'.args[3] ELSE 0

EmptyDelegation ==
    [][ ( /\ InLoop
          /\ hist'.op \in {"CALL", "CALLCODE", "DELEGATECALL", "STATICCALL"}
          /\ has_delegation(get_account(cache, hist'.args[2]).code)
          /\ get_account(cache, get_authorized_address(
                                    get_account(cache, hist'.args[2]).code)).code = <<>> ) =>
          LET f == current_call_frame(VM)
              n == Len(call_frames)
              target == hist'.args[2]
              auth == get_authorized_address(get_account(cache, target).code)
              touched == accrued_substate.touched_accounts
              charges == (IF target \in touched THEN 100 ELSE 2600)
                         + (IF auth \in touched \cup {target} THEN 100 ELSE 2600)
                         + (IF ValueSent # 0 THEN 9000 ELSE 0)
              c == call_charges(VM, hist'.args[1], target, ValueSent, hist'.op = "CALL", 0)
              g == call_frames'[n]
          IN  ( /\ ~(hist'.op = "CALL" /\ f.is_static /\ ValueSent # 0)
                /\ c.error = NoError
                /\ Balance(cache, f.to) >= ValueSent
                /\ ~depth_limit_reached(f.depth + 1) ) =>
                  /\ hist'.err = NoError
                  /\ phase' = "running"
                  /\ Len(call_frames') = n
                  /\ g.stack = Append(f.stack, 1)
                  /\ g.gas_used = current_call_frame(c.vm).gas_used - c.gas_limit
                  /\ g.gas_used = f.gas_used + charges
                                  - (IF ValueSent # 0 THEN 2300 ELSE 0)
                  /\ g.pc = f.pc + 1
                  /\ return_data' = return_data
                  /\ backups' = backups
                  /\ \A x \in Addresses : Balance(cache', x) = Balance(cache, x)
      ]_vars

\* A, holding 1 wei, has called B, the designator of a cold address that holds no
\* account, with that wei: it goes on with 1 on its stack, its wei, and
\* 100 + 2600 + 9000 - 2300 gas spent
EmptyDelegationWitness ==
    /\ phase = "running"
    /\ hist.op = "CALL"
    /\ hist.args = <<100000, Addr.B, 1>>
    /\ hist.err = NoError
    /\ steps = 1
    /\ store[Addr.B].code = <<239, 1, 0, Addr.new>>
    /\ store[Addr.new].code = <<>>
    /\ Len(call_frames) = 1
    /\ call_frames[1].stack = <<1>>
    /\ call_frames[1].gas_used = TX_BASE_COST + 9400
    /\ Balance(cache, Addr.A) = 1
    /\ Balance(cache, Addr.B) = 0
    /\ return_data = <<>>

\* C39: a CALL, CALLCODE, DELEGATECALL or STATICCALL of an account whose code is a
\* designator, when it opens a frame, gives that frame the code of the designated
\* account and the called account's address as code_address, and charges the caller
\* the access of the called account, the value charge and the gas handed to the
\* frame, and, once, 2600 for a cold designated account or 100 for a warm one.
DelegatedFrame ==
    [][ ( /\ InLoop
          /\ hist'.op \in {"CALL", "CALLCODE", "DELEGATECALL", "STATICCALL"}
          /\ has_delegation(get_account(cache, hist'.args[2]).code)
          /\ hist'.err = NoError
          /\ Len(call_frames') = Len(call_frames) + 1 ) =>
          LET f == current_call_frame(VM)
              n == Len(call_frames)
              target == hist'.args[2]
              auth == get_authorized_address(get_account(cache, target).code)
              touched == accrued_substate.touched_accounts
              delegation_cost == IF auth \in touched \cup {target} THEN 100 ELSE 2600
              stipend == IF ValueSent # 0 THEN 2300 ELSE 0
              child == call_frames'[n + 1]
          IN  /\ child.bytecode = get_account(cache, auth).code
              /\ child.bytecode # <<>>
              /\ child.code_address = target
              /\ child.to = (IF hist'.op \in {"CALL", "STATICCALL"} THEN target ELSE f.to)
              /\ auth \in accrued_substate'.touched_accounts
              /\ call_frames'[n].gas_used
                    = f.gas_used + (IF target \in touched THEN 100 ELSE 2600)
                      + delegation_cost
                      + (IF ValueSent # 0 THEN 9000 ELSE 0)
                      + (child.gas_limit - stipend)
      ]_vars

\* A has called B, the designator of a cold contract, with STATICCALL and 100000
\* gas: the frame opened runs the contract's code with B as its code address, and A
\* has paid 100 + 2600 + 100000
DelegatedFrameWitness ==
    /\ phase = "running"
    /\ hist.op = "STATICCALL"
    /\ hist.err = NoError
    /\ steps = 1
    /\ store[Addr.B].code = <<239, 1, 0, Addr.new>>
    /\ Len(call_frames) = 2
    /\ call_frames[2].bytecode = SomeCode
    /\ call_frames[2].code_address = Addr.B
    /\ call_frames[2].to = Addr.B
    /\ call_frames[2].gas_limit = 100000
    /\ call_frames[1].gas_used = TX_BASE_COST + 102700

\* C35: a CALL, CALLCODE, DELEGATECALL, STATICCALL, CREATE or CREATE2 that ends
\* without an error either opens no frame and then leaves one more word on its
\* frame's stack and its pc 1 higher, or opens a frame and leaves its own frame's
\* stack and pc as they are; the step that ends a frame opened by one of them
\* (by STOP, RETURN, REVERT or an exceptional halt) pushes one word on the frame
\* beneath, 1 or the new address after a success and 0 otherwise, and adds 1 to
\* its pc; and no step changes a frame beneath these.
OneWordOnePc ==
    [][ InLoop =>
          LET n == Len(call_frames)
              f == call_frames[n]
          IN  /\ (hist'.op \in EnteringOpcodes /\ hist'.err = NoError) =>
                    /\ phase' = "running"
                    /\ \/ /\ Len(call_frames') = n
                          /\ Len(call_frames'[n].stack) = Len(f.stack) + 1
                          /\ SubSeq(call_frames'[n].stack, 1, Len(f.stack)) = f.stack
                          /\ call_frames'[n].pc = f.pc + 1
                       \/ /\ Len(call_frames') = n + 1
                          /\ call_frames'[n].stack = f.stack
                          /\ call_frames'[n].pc = f.pc
              /\ (phase' = "running" /\ Len(call_frames') < n) =>
                    /\ Len(call_frames') = n - 1
                    /\ hist.open[n].by \in EnteringOpcodes
                    /\ call_frames'[n - 1].pc = call_frames[n - 1].pc + 1
                    /\ call_frames'[n - 1].stack
                          = Append(call_frames[n - 1].stack,
                                   IF hist'.popped.result # "Success" THEN 0
                                   ELSE IF hist.open[n].by \in {"CREATE", "CREATE2"}
                                   THEN f.to
                                   ELSE 1)
              /\ \A i \in 1..(n - 1) :
                    i < Len(call_frames') /\ i < n - (IF Len(call_frames') < n THEN 1 ELSE 0)
                        => call_frames'[i] = call_frames[i]
      ]_vars

\* a frame that CREATE opened has ended by REVERT: the deployer goes on with 0 on
\* its stack and its pc after the CREATE
OneWordOnePcWitness ==
    /\ phase = "running"
    /\ hist.op = "REVERT"
    /\ hist.exited # NoExit
    /\ hist.exited.by = "CREATE"
    /\ Len(call_frames) = 1
    /\ call_frames[1].stack = <<0>>
    /\ call_frames[1].pc = 1

\* C36: the frame STATICCALL opens is static and so is every frame opened beneath a
\* static frame; and when a frame that STATICCALL opened ends, by STOP, REVERT or
\* an error, with or without frames nested in it, every slot's value, every
\* transient entry, every balance, nonce and code and selfdestruct_set are what
\* they were before the STATICCALL; a STATICCALL that opens no frame leaves them
\* as they are too.
\* the code of every account
Codes(c) == [a \in Addresses |-> get_account(c, a).code]

StaticReadOnly ==
    [][ InLoop =>
          LET n == Len(call_frames)
              m == Len(call_frames')
          IN  /\ \A i \in 2..m : call_frames'[i - 1].is_static => call_frames'[i].is_static
              /\ (hist'.op = "STATICCALL" /\ m = n + 1) => call_frames'[m].is_static
              /\ (hist'.op = "STATICCALL" /\ m = n /\ phase' = "running") =>
                    /\ Ledger(cache', transient_storage', accrued_substate')
                          = Ledger(cache, transient_storage, accrued_substate)
                    /\ Codes(cache') = Codes(cache)
              /\ (hist'.exited # NoExit /\ hist'.exited.by = "STATICCALL"
                  /\ phase' = "running") =>
                    /\ Ledger(cache', transient_storage', accrued_substate')
                          = Ledger(BeforeCurrent.cache, BeforeCurrent.transient_storage,
                                   BeforeCurrent.substate)
                    /\ Codes(cache') = Codes(BeforeCurrent.cache)
      ]_vars

\* A wrote 2 to its slot and called itself with STATICCALL; the frame opened ran
\* SSTORE of 1 and failed: A goes on with 0 on its stack and its slot holding 2
StaticReadOnlyWitness ==
    /\ phase = "running"
    /\ hist.op = "SSTORE"
    /\ hist.args[2] = 1
    /\ hist.err = "OpcodeNotAllowedInStaticContext"
    /\ hist.exited # NoExit
    /\ hist.exited.by = "STATICCALL"
    /\ hist.exited.to = Addr.A
    /\ Len(call_frames) = 1
    /\ call_frames[1].stack = <<0>>
    /\ Ledger(cache, transient_storage, accrued_substate).storage[Addr.A][0] = 2
    /\ store[Addr.A].storage[0] = 0

\* C37: when the frame of a CREATE or CREATE2 ends by REVERT or an exceptional
\* halt, the balance of the address it was to deploy to is what it was before the
\* CREATE, and so is the sum of the balances of all accounts.
\* the sum of the balances of all accounts
TotalBalance(c) ==
    Balance(c, Addr.precompile) + Balance(c, Addr.origin) + Balance(c, Addr.A)
        + Balance(c, Addr.B) + Balance(c, Addr.new)

FailedCreateConserves ==
    [][ ( /\ InLoop /\ Len(call_frames) > 1 /\ current_call_frame(VM).is_create
          /\ FailedExit ) =>
          /\ Balance(cache', current_call_frame(VM).to)
                = Balance(BeforeCurrent.cache, current_call_frame(VM).to)
          /\ TotalBalance(cache') = TotalBalance(BeforeCurrent.cache)
      ]_vars

\* C38: execute of a creation whose address holds an account with code or a nonce,
\* once prepare_execution has passed, returns the report Revert with
\* AddressAlreadyOccupied, gas_used the gas limit, gas_refunded 0, no log and no
\* output; no StateBackup is pushed, the frame has run nothing, the account at the
\* address is what it was, finalize_execution has run once, and nothing runs after.
CreationOnOccupied ==
    [][ /\ ( /\ phase = "new"
             /\ hist'.op = "execute"
             /\ tx_kind = "Create"
             /\ phase' # "error"
             /\ has_code_or_nonce(get_account(cache, call_frames[1].to)) ) =>
               LET to == call_frames[1].to
                   p == prepare_execution([VM EXCEPT !.call_frames = <<>>], call_frames[1])
               IN  /\ phase' = "returned"
                   /\ report' = [result |-> "Revert", error |-> "AddressAlreadyOccupied",
                                 gas_used |-> call_frames[1].gas_limit, gas_refunded |-> 0,
                                 logs |-> <<>>, output |-> <<>>]
                   /\ backups' = <<>>
                   /\ return_data' = <<>>
                   /\ call_frames' = <<p.frame>>
                   /\ call_frames'[1].pc = 0
                   /\ call_frames'[1].gas_used
                         = TX_BASE_COST + CREATE_BASE_COST
                           + calldata_cost(call_frames[1].calldata, fork)
                   /\ get_account(cache', to) = get_account(cache, to)
                   /\ hist'.finalized = 1
                   /\ VM' = finalize_execution(Occupied(p), report').vm
        /\ (phase = "returned" /\ report.error = "AddressAlreadyOccupied") => FALSE
      ]_vars

\* a creation with a value of 1 on Cancun has found a contract at its address: the
\* report is out, the contract is there and finalize_execution has run once
CreationOnOccupiedWitness ==
    /\ phase = "returned"
    /\ fork = "Cancun"
    /\ report.result = "Revert"
    /\ report.error = "AddressAlreadyOccupied"
    /\ report.gas_used = 200000
    /\ hist.finalized = 1
    /\ call_frames[1].msg_value = 1
    /\ get_account(cache, Addr.new).code = SomeCode
    /\ get_account(cache, Addr.new).balance = 1
    /\ backups = <<>>

====
